---- MODULE Spec2Model ----
(***************************************************************************)
(* A model of the realtime streaming session client of zan-h/ac1:          *)
(*   src/realtime/__init__.py      AudioProcessor, EventManager,            *)
(*                                 ConversationManager,                     *)
(*                                 RealtimeWebSocketClient                  *)
(*   src/utils/realtime_helpers.py RealtimeErrorHandler.with_retry          *)
(*   src/my_assistant.py           VoiceAssistantManager.connect_realtime   *)
(*                                                                         *)
(* Python's asyncio runs one coroutine at a time and switches only at an   *)
(* await that suspends, so an action of this model is the code between two *)
(* such awaits.  Text is a sequence of tokens (a delta is a short sequence *)
(* and += is \o), bytes are sequences of numbers 0..255, None is the       *)
(* string "None".                                                          *)
(***************************************************************************)
EXTENDS Integers, Sequences, FiniteSets, TLC

(***************************************************************************)
(* Bounds of the model.                                                    *)
(***************************************************************************)
\* frames after the greeting that the stream specification delivers
MaxStreamFrames == 4
\* transports one specification lets websockets.connect open
MaxConns == 2
\* transports of the registry and lifecycle specifications
MaxLifeConns == 1
\* frames of the function-call stream after the greeting
MaxToolFrames == 4
\* with_retry calls of one run of the retry specification
MaxCalls == 2
\* largest max_retries the retry specification constructs a handler with
MaxRetriesBound == 3
\* disconnect() calls of one run
MaxDisconnects == 2
\* events written before the application stops sending audio
MaxLifeSends == 3
\* frames after the greeting of the stream with bad frames
MaxBadFrames == 4
\* events written before the application stops changing the configuration
MaxConfigSends == 4
\* events written before the callers stop streaming and committing audio
MaxRaceSends == 5
\* events written before the caller stops streaming audio
MaxAudioSends == 6
\* events written before the application stops sending text and audio
MaxTextSends == 4
\* response times recorded before the monitor specification stops
MaxSamples == 102
\* record_* calls between two resets of the metrics specification
MaxRecords == 4
\* emit_event calls of the event manager specification
MaxEmits == 2
\* handler invocations after which no further handler is registered
MaxHandlerCalls == 3

(***************************************************************************)
(* Program constants.                                                      *)
(***************************************************************************)
\* RealtimeErrorHandler.__init__(max_retries = 3, ...)
DefaultMaxRetries == 3
\* RealtimeErrorHandler.__init__(..., retry_delay = 1.0)
DefaultRetryDelay == 1
\* get_conversation_history(limit = 50)
DefaultHistoryLimit == 50
\* the response times record_response_time keeps
WindowSize == 100

None == "None"

(***************************************************************************)
(* Values the environment draws its inputs from.                           *)
(***************************************************************************)
ItemIds == {"item_A", "item_B"}
ToolNames == {"get_time"}
FunctionNames == {"get_time", "missing_tool"}
TextDeltas == {<<"Hi">>, <<" there!">>}
TranscriptDeltas == {<<"tr">>}
\* base64 text, one character per element: "AgM=" is bytes 2 3, "AQ" is
\* not well-formed (it lacks its padding)
AudioDeltas == {<<"A", "g", "M", "=">>, <<"A", "Q">>}
\* fragments of an argument string: "{" and "}" make "{}", "{b" is the
\* start of "{bad json"
ArgDeltas == {<<"{">>, <<"}">>, <<"{", "b">>}
InlineTexts == {<< >>, <<"Hello">>}
HandlerKinds == {"async", "sync", None}
HandlerOutcomes == {"return", "raise", "unserializable"}
ErrorTypes == {"ConnectionError", "TimeoutError"}
RetryDelays == {1, 2}
ToolVersions == {1, 2}
\* event handlers of the application: a coroutine function and a plain
\* function (whether a handler returns or raises makes no difference to
\* emit_event, which logs the exception and goes on)
HandlerNames == {"h_async", "h_sync"}
\* what add_tool may be given as the name of a definition
GivenNames == ToolNames \cup {"get_weather", ""}
\* byte strings given to send_audio_data
AudioChunks == {<< >>, <<1, 2>>}
\* setup_default_session_config, cut to three of its keys
DefaultSessionConfig ==
  [voice |-> "alloy", temperature |-> "0.7", tools |-> << >>]
\* keyword arguments given to update_session
Patches ==
  {<< >>, [voice |-> "echo"], [voice |-> "shimmer", temperature |-> "0.2"],
   [tools |-> <<"mine">>]}
\* byte strings given to send_audio_data by a caller that streams audio
StreamedChunks == {<< >>, <<1, 2>>, <<3>>}

(***************************************************************************)
(* Generic helpers.                                                        *)
(***************************************************************************)
RECURSIVE Flatten(_)
Flatten(ss) == IF ss = << >> THEN << >> ELSE Head(ss) \o Flatten(Tail(ss))

RECURSIVE Pow2(_)
Pow2(n) == IF n = 0 THEN 1 ELSE 2 * Pow2(n - 1)

\* the last n elements of s: Python's s[-n:] for n > 0
LastN(s, n) == IF n >= Len(s) THEN s ELSE SubSeq(s, Len(s) - n + 1, Len(s))

\* Python truthiness: of a text, bytes or list value (a sequence here), and
\* of a name or id (a string here, None when the key is missing)
Truthy(s) == s # << >>

TruthyId(id) == id \notin {None, ""}

(***************************************************************************)
(* AudioProcessor.decode_base64_audio: base64.b64decode (not strict)       *)
(* followed by .tobytes(); a decoding error is logged and gives no bytes.  *)
(***************************************************************************)
B64Chars ==
  << "A", "B", "C", "D", "E", "F", "G", "H", "I", "J", "K", "L", "M",
     "N", "O", "P", "Q", "R", "S", "T", "U", "V", "W", "X", "Y", "Z",
     "a", "b", "c", "d", "e", "f", "g", "h", "i", "j", "k", "l", "m",
     "n", "o", "p", "q", "r", "s", "t", "u", "v", "w", "x", "y", "z",
     "0", "1", "2", "3", "4", "5", "6", "7", "8", "9", "+", "/" >>

IsB64Char(ch) == \E i \in 1..Len(B64Chars) : B64Chars[i] = ch

B64Value(ch) == (CHOOSE i \in 1..Len(B64Chars) : B64Chars[i] = ch) - 1

\* binascii.a2b_base64: quad is the position in the current group of four,
\* left the bits carried over, pads the '=' seen in a row
RECURSIVE B64Scan(_, _, _, _, _)
B64Scan(s, quad, left, pads, out) ==
  IF s = << >>
  THEN [ok |-> quad = 0, bytes |-> out]
  ELSE LET ch == Head(s) IN
       IF ch = "="
       THEN IF quad >= 2 /\ quad + pads + 1 >= 4
            THEN [ok |-> TRUE, bytes |-> out]
            ELSE B64Scan(Tail(s), quad, left, IF quad >= 2 THEN pads + 1 ELSE pads, out)
       ELSE IF ~IsB64Char(ch)
       THEN B64Scan(Tail(s), quad, left, pads, out)
       ELSE LET v == B64Value(ch) IN
            CASE quad = 0 -> B64Scan(Tail(s), 1, v, 0, out)
              [] quad = 1 -> B64Scan(Tail(s), 2, v % 16, 0, Append(out, left * 4 + v \div 16))
              [] quad = 2 -> B64Scan(Tail(s), 3, v % 4, 0, Append(out, left * 16 + v \div 4))
              [] OTHER    -> B64Scan(Tail(s), 0, 0, 0, Append(out, left * 64 + v))

decode_base64_audio(base64_str) ==
  LET r == B64Scan(base64_str, 0, 0, 0, << >>) IN
  IF r.ok THEN r.bytes ELSE << >>

(***************************************************************************)
(* json.loads on the accumulated argument string, over the characters the  *)
(* model uses: "{}" is the empty object, a run of digits is a number, and  *)
(* everything else (the empty string included) raises JSONDecodeError.     *)
(***************************************************************************)
IsDigits(s) == s # << >> /\ \A i \in 1..Len(s) : s[i] = "1"

json_loads(s) ==
  IF s = <<"{", "}">> THEN [ok |-> TRUE, kind |-> "object"]
  ELSE IF IsDigits(s) THEN [ok |-> TRUE, kind |-> "number"]
  ELSE [ok |-> FALSE, kind |-> "error"]

(***************************************************************************)
(* State.                                                                  *)
(***************************************************************************)
VARIABLES
  \* RealtimeWebSocketClient
  websocket,        \* self.websocket: 0 is None, c >= 1 the transport object
  session_created,  \* self.session_created
  conversation,     \* self.conversation: items, item_lookup, pending_audio
  audio_buffer,     \* self.audio_buffer
  tools,            \* self.tools: name -> [definition, handler]
  \* the transports and the receive loop task of each
  nconns,           \* transports websockets.connect has opened so far
  open,             \* the transports that are open
  loop,             \* transport -> position of its _process_messages task
  call,             \* transport -> the tool call its loop is suspended in
  nframes,          \* frames delivered so far
  \* what the outside sees
  sent,             \* events written to a transport, in order
  emitted,          \* events given to the handlers of the EventManager
  received,         \* the frames the receive loops took, in order
  invoked,          \* the tool handler invocations
  \* connect(), disconnect()
  conn_pc,          \* position of the running connect() call
  conn_caller,      \* who awaits it: "app" or "with_retry"
  conn_result,      \* what the last connect() returned
  disc_pc,          \* position of the running disconnect() call
  resets,           \* calls of ConversationManager.reset()
  disconnects,      \* disconnect() calls that have returned
  last_op,          \* the client operation that returned last
  \* RealtimeErrorHandler
  max_retries, retry_delay, error_counts,
  \* one with_retry call
  retry_pc, attempt, last_exception, retry_result,
  retry_op,         \* the operation it wraps: "operation" or "connect"
  invocations,      \* outcomes of the operation's invocations, in order
  sleeps,           \* the asyncio.sleep waits, in order
  counts_before,    \* error_counts when the call started
  ncalls,           \* with_retry calls started so far
  \* VoiceAssistantManager.connect_realtime
  cr_pc, cr_result,
  \* EventManager, for one event type
  handlers,         \* self.handlers[event_type]: the handlers, in order
  emission,         \* the emit_event call in progress, if any
  calls,            \* the handler invocations: [handler, payload], in order
  waiter,           \* the wait_for_event call
  \* the application
  history,          \* the list its last get_conversation_history call returned
  text_call,        \* position of its send_text_message call
  session_config,   \* self.session_config: key -> value
  commit_call,      \* position of its commit_audio call, when that is suspended
  \* PerformanceMonitor
  metrics,          \* self.metrics
  observed          \* the response times recorded since the last reset

clientVars == <<websocket, session_created, conversation, audio_buffer, tools>>
netVars == <<nconns, open>>
loopVars == <<loop, call>>
frameVars == <<nframes, received>>
logVars == <<sent, emitted, invoked>>
connVars == <<conn_pc, conn_caller, conn_result>>
discVars == <<disc_pc, resets, disconnects>>
handlerVars == <<max_retries, retry_delay, error_counts>>
retryVars == <<retry_pc, retry_op, attempt, last_exception, retry_result,
               invocations, sleeps, counts_before, ncalls>>
crVars == <<cr_pc, cr_result>>
emVars == <<handlers, emission, calls, waiter>>
monVars == <<metrics, observed>>
appVars == <<history, text_call, session_config, commit_call, monVars>>
\* everything but the performance monitor and the last call
exceptMonitor ==
  <<clientVars, netVars, loopVars, frameVars, logVars, connVars, discVars,
    handlerVars, retryVars, crVars, emVars, history, text_call,
    session_config, commit_call>>
\* the state of the callers of the client: untouched by the receive loop
callerVars ==
  <<connVars, discVars, last_op, handlerVars, retryVars, crVars, emVars, appVars>>
vars == <<clientVars, netVars, loopVars, frameVars, logVars, callerVars>>
\* everything but the event manager
clientSide ==
  <<clientVars, netVars, loopVars, frameVars, logVars, connVars, discVars,
    last_op, handlerVars, retryVars, crVars, appVars>>

Conns == 1..MaxConns

(***************************************************************************)
(* ConversationManager.                                                    *)
(***************************************************************************)
NoAudio == [present |-> FALSE, data |-> << >>]

reset == [items |-> << >>, item_lookup |-> << >>, pending_audio |-> NoAudio]

\* the text of the inline parts of type text / input_text, concatenated
InlineText(content) ==
  Flatten([i \in 1..Len(content) |->
             IF content[i].type \in {"text", "input_text"}
             THEN content[i].text ELSE << >>])

\* the formatted_item add_item builds from the item of the frame
FormattedItem(item) ==
  [id |-> item.id, type |-> item.type, name |-> item.name,
   call_id |-> item.call_id, content |-> item.content, status |-> item.status,
   formatted |-> [audio |-> << >>, text |-> InlineText(item.content),
                  transcript |-> << >>,
                  tool |-> [present |-> FALSE, arguments |-> << >>]]]

\* a variant that takes an item whatever its id is
add_item_any_id(conv, item) ==
  [conv EXCEPT
     !.items = Append(@, FormattedItem(item)),
     !.item_lookup = (item.id :> (Len(conv.items) + 1)) @@ @]

\* add_item: no id, no effect; else the item is appended and indexed
add_item(conv, item) ==
  IF ~TruthyId(item.id) THEN conv
  ELSE [conv EXCEPT
          !.items = Append(@, FormattedItem(item)),
          !.item_lookup = (item.id :> (Len(conv.items) + 1)) @@ @]

\* get_item: the object the index holds for the id, or None (NoItem: an
\* item with no id)
HasItem(conv, item_id) == item_id \in DOMAIN conv.item_lookup

NoItem == [id |-> None]

get_item(conv, item_id) ==
  IF HasItem(conv, item_id) THEN conv.items[conv.item_lookup[item_id]] ELSE NoItem

\* what add_item returns: None (NoItem) without an id, else the new item
add_item_returns(conv, item) ==
  IF ~TruthyId(item.id) THEN NoItem ELSE FormattedItem(item)

\* what update_item_audio, update_item_text and update_item_transcript
\* return: whether the id is in the index
update_item_returns(conv, item_id) == HasItem(conv, item_id)

update_item_audio(conv, item_id, audio_data) ==
  IF HasItem(conv, item_id)
  THEN [conv EXCEPT !.items[conv.item_lookup[item_id]].formatted.audio =
                      Append(@, audio_data)]
  ELSE conv

\* a variant that puts the delta in front of the accumulated text
update_item_text_prepend(conv, item_id, text_delta) ==
  IF HasItem(conv, item_id)
  THEN [conv EXCEPT !.items[conv.item_lookup[item_id]].formatted.text =
                      text_delta \o @]
  ELSE conv

update_item_text(conv, item_id, text_delta) ==
  IF HasItem(conv, item_id)
  THEN [conv EXCEPT !.items[conv.item_lookup[item_id]].formatted.text =
                      @ \o text_delta]
  ELSE conv

update_item_transcript(conv, item_id, transcript_delta) ==
  IF HasItem(conv, item_id)
  THEN [conv EXCEPT !.items[conv.item_lookup[item_id]].formatted.transcript =
                      @ \o transcript_delta]
  ELSE conv

\* a variant that returns the oldest items
get_conversation_history_oldest(conv, limit) ==
  IF limit > 0 THEN SubSeq(conv.items, 1, IF limit < Len(conv.items) THEN limit
                                          ELSE Len(conv.items))
  ELSE conv.items

\* items[-limit:] for limit > 0, items.copy() otherwise: in both cases a new
\* list of the same item objects
get_conversation_history(conv, limit) ==
  IF limit > 0 THEN LastN(conv.items, limit) ELSE conv.items

(***************************************************************************)
(* AudioProcessor.encode_audio_to_base64 on bytes: base64.b64encode.       *)
(***************************************************************************)
RECURSIVE b64encode(_)
b64encode(bytes) ==
  LET ch(v) == B64Chars[v + 1] IN
  CASE Len(bytes) = 0 -> << >>
    [] Len(bytes) = 1 ->
         <<ch(bytes[1] \div 4), ch((bytes[1] % 4) * 16), "=", "=">>
    [] Len(bytes) = 2 ->
         <<ch(bytes[1] \div 4), ch((bytes[1] % 4) * 16 + bytes[2] \div 16),
           ch((bytes[2] % 16) * 4), "=">>
    [] OTHER ->
         <<ch(bytes[1] \div 4), ch((bytes[1] % 4) * 16 + bytes[2] \div 16),
           ch((bytes[2] % 16) * 4 + bytes[3] \div 64), ch(bytes[3] % 64)>>
         \o b64encode(SubSeq(bytes, 4, Len(bytes)))

encode_audio_to_base64(audio_data) == b64encode(audio_data)

(***************************************************************************)
(* PerformanceMonitor.  Times are whole numbers; the average is kept as    *)
(* the exact quotient num / den.                                           *)
(***************************************************************************)
ResponseTimes == {1, 2}
SessionDurations == {5}
Directions == {"sent", "received", "both"}
RecordedErrors == {"connection_error", "message_send_error"}
RecordedErrorSeq == <<"connection_error", "message_send_error">>

Quotient(num, den) == [num |-> num, den |-> den]

Zero == Quotient(0, 1)

InitMetrics ==
  [connection_attempts |-> 0, successful_connections |-> 0,
   failed_connections |-> 0, messages_sent |-> 0, messages_received |-> 0,
   audio_chunks_processed |-> 0, average_response_time |-> Zero,
   response_times |-> << >>, session_durations |-> << >>,
   error_counts |-> << >>]

\* Python's sum over a list; the list is added up by halves so that a full
\* window of WindowSize samples stays a shallow evaluation
RECURSIVE sum(_)
sum(xs) ==
  IF xs = << >> THEN 0
  ELSE IF Len(xs) = 1 THEN xs[1]
  ELSE LET half == Len(xs) \div 2
       IN sum(SubSeq(xs, 1, half)) + sum(SubSeq(xs, half + 1, Len(xs)))

record_connection_attempt(m, success) ==
  IF success
  THEN [m EXCEPT !.connection_attempts = @ + 1, !.successful_connections = @ + 1]
  ELSE [m EXCEPT !.connection_attempts = @ + 1, !.failed_connections = @ + 1]

record_message(m, direction) ==
  IF direction = "sent" THEN [m EXCEPT !.messages_sent = @ + 1]
  ELSE IF direction = "received" THEN [m EXCEPT !.messages_received = @ + 1]
  ELSE m

record_audio_chunk(m) == [m EXCEPT !.audio_chunks_processed = @ + 1]

\* a variant that keeps the first WindowSize response times
record_response_time_keep_oldest(m, response_time) ==
  LET appended == Append(m.response_times, response_time)
      kept == IF Len(appended) > WindowSize THEN SubSeq(appended, 1, WindowSize)
              ELSE appended
  IN [m EXCEPT !.response_times = kept,
               !.average_response_time = Quotient(sum(kept), Len(kept))]

record_response_time(m, response_time) ==
  LET appended == Append(m.response_times, response_time)
      kept == IF Len(appended) > WindowSize THEN LastN(appended, WindowSize)
              ELSE appended
  IN [m EXCEPT !.response_times = kept,
               !.average_response_time = Quotient(sum(kept), Len(kept))]

record_session_duration(m, duration) ==
  [m EXCEPT !.session_durations = Append(@, duration)]

record_error(m, error_type) ==
  [m EXCEPT !.error_counts =
     (error_type :> ((IF error_type \in DOMAIN @ THEN @[error_type] ELSE 0) + 1))
       @@ @]

\* a variant that leaves the counters of connections as they are
reset_metrics_keep_connections(m) ==
  [InitMetrics EXCEPT !.connection_attempts = m.connection_attempts,
                      !.successful_connections = m.successful_connections,
                      !.failed_connections = m.failed_connections]

\* reset_metrics: numbers to 0, lists to [], dicts to {}
reset_metrics(m) == InitMetrics

\* the calls recorded since the last reset
Recorded(m) ==
  m.connection_attempts + m.messages_sent + m.messages_received
    + m.audio_chunks_processed + Len(m.response_times)
    + Len(m.session_durations)
    + sum([i \in 1..Len(RecordedErrorSeq) |->
             IF RecordedErrorSeq[i] \in DOMAIN m.error_counts
             THEN m.error_counts[RecordedErrorSeq[i]] ELSE 0])

RecordConnectionAttempt(success) ==
  /\ last_op' = [op |-> "record_connection_attempt", result |-> "ok"]
  /\ metrics' = record_connection_attempt(metrics, success)
  /\ UNCHANGED <<exceptMonitor, observed>>

RecordMessage(direction) ==
  /\ last_op' = [op |-> "record_message", result |-> "ok"]
  /\ metrics' = record_message(metrics, direction)
  /\ UNCHANGED <<exceptMonitor, observed>>

RecordAudioChunk ==
  /\ last_op' = [op |-> "record_audio_chunk", result |-> "ok"]
  /\ metrics' = record_audio_chunk(metrics)
  /\ UNCHANGED <<exceptMonitor, observed>>

RecordResponseTime(response_time) ==
  /\ last_op' = [op |-> "record_response_time", result |-> "ok"]
  /\ metrics' = record_response_time(metrics, response_time)
  /\ observed' = Append(observed, response_time)
  /\ UNCHANGED exceptMonitor

RecordSessionDuration(duration) ==
  /\ last_op' = [op |-> "record_session_duration", result |-> "ok"]
  /\ metrics' = record_session_duration(metrics, duration)
  /\ UNCHANGED <<exceptMonitor, observed>>

RecordError(error_type) ==
  /\ last_op' = [op |-> "record_error", result |-> "ok"]
  /\ metrics' = record_error(metrics, error_type)
  /\ UNCHANGED <<exceptMonitor, observed>>

ResetMetrics ==
  /\ last_op' = [op |-> "reset_metrics", result |-> "ok"]
  /\ metrics' = reset_metrics(metrics)
  /\ observed' = << >>
  /\ UNCHANGED exceptMonitor

(***************************************************************************)
(* EventManager.emit_event, with handlers that record what they are given: *)
(* the log is what a recording handler of every event type has seen.       *)
(* ns is the prefix of the event type ("server", "client" or none).        *)
(***************************************************************************)
emit_event(log, ns, event_type, event_data) ==
  Append(log, [ns |-> ns, type |-> event_type, data |-> event_data])

(***************************************************************************)
(* The outbound side.  An effect record o carries the transport log, the   *)
(* emission log and whether the code is still running normally (ok) or an  *)
(* exception is propagating.                                               *)
(***************************************************************************)
Effects == [sent |-> sent, emitted |-> emitted, ok |-> TRUE]

Raise(o) == [o EXCEPT !.ok = FALSE]

Caught(o) == [o EXCEPT !.ok = TRUE]

\* websocket.send works on an open transport only
CanSend == websocket # 0 /\ websocket \in open

\* generate_event_id: a fresh id for every event written
generate_event_id(o) == Len(o.sent) + 1

\* a variant that writes the event and emits nothing
send_event_unobserved(o, event_type, data) ==
  IF ~o.ok THEN o
  ELSE IF ~CanSend THEN Raise(o)
  ELSE LET event == [conn |-> websocket, event_id |-> generate_event_id(o),
                     type |-> event_type, data |-> data]
       IN [o EXCEPT !.sent = Append(@, event)]

\* send_event: RuntimeError without a transport, ConnectionClosed on a closed
\* one; else the event is written and client.<type> is emitted
send_event(o, event_type, data) ==
  IF ~o.ok THEN o
  ELSE IF ~CanSend THEN Raise(o)
  ELSE LET event == [conn |-> websocket, event_id |-> generate_event_id(o),
                     type |-> event_type, data |-> data]
       IN [o EXCEPT !.sent = Append(@, event),
                    !.emitted = emit_event(@, "client", event_type, event)]

\* send_function_result: the function_call_output item, then response.create;
\* json.dumps(result) raises before anything is written
send_function_result(o, call_id, result) ==
  IF ~result.serializable THEN Raise(o)
  ELSE send_event(
         send_event(o, "conversation.item.create",
                    [item |-> [type |-> "function_call_output",
                               call_id |-> call_id, output |-> result]]),
         "response.create", << >>)

ErrorResult(msg) == [serializable |-> TRUE, error |-> TRUE, value |-> msg]

HandlerResult(outcome) ==
  [serializable |-> outcome # "unserializable", error |-> FALSE, value |-> "result"]

\* a variant that pushes the configuration without the tools
update_session_without_tools(o, registry) ==
  send_event(o, "session.update", [tools |-> {}])

\* the session_data of update_session: the configuration, its "tools" key
\* replaced by the definitions of the registry
session_data(config, registry) ==
  [tools |-> {registry[n].definition : n \in DOMAIN registry}] @@ config

\* update_session: session.update with the configuration and the tools of
\* the registry
update_session(o, registry) ==
  send_event(o, "session.update", session_data(session_config, registry))

(***************************************************************************)
(* _execute_function_call, from the handler's outcome on: the result is    *)
(* sent; whatever raises on the way (the handler, json.dumps, a send) is   *)
(* answered by sending an error result; what that raises is logged.        *)
(***************************************************************************)
\* a variant that only logs a handler's exception
AfterHandler_drop_on_raise(o, call_id, outcome) ==
  LET first == IF outcome = "raise" THEN o
               ELSE send_function_result(o, call_id, HandlerResult(outcome))
  IN IF first.ok THEN first
     ELSE Caught(send_function_result(Caught(first), call_id,
                                      ErrorResult("handler error")))

AfterHandler(o, call_id, outcome) ==
  LET first == IF outcome = "raise" THEN Raise(o)
               ELSE send_function_result(o, call_id, HandlerResult(outcome))
  IN IF first.ok THEN first
     ELSE Caught(send_function_result(Caught(first), call_id,
                                      ErrorResult("handler error")))

\* the argument string _execute_function_call parses
ArgsStr(item) ==
  IF item.formatted.tool.present THEN item.formatted.tool.arguments
  ELSE <<"{", "}">>

\* a variant that hands the argument string to the handler unparsed
Dispatch_unparsed(item) ==
  IF item.name \notin DOMAIN tools THEN "unknown"
  ELSE IF tools[item.name].handler = None THEN "no_handler"
  ELSE "invoke"

\* what _execute_function_call does with a completed function-call item:
\* "unknown", "no_handler", "bad_args" (json.loads or handler(**args) raises
\* before the handler runs) or "invoke"
Dispatch(item) ==
  IF item.name \notin DOMAIN tools THEN "unknown"
  ELSE IF tools[item.name].handler = None THEN "no_handler"
  ELSE IF json_loads(ArgsStr(item)).kind # "object" THEN "bad_args"
  ELSE "invoke"

\* a variant that answers under no call id
WithoutHandler_anonymous(o, item) ==
  Caught(send_function_result(o, None, ErrorResult(Dispatch(item))))

\* the branches of _execute_function_call that do not run the handler
WithoutHandler(o, item) ==
  Caught(send_function_result(o, item.call_id, ErrorResult(Dispatch(item))))

(***************************************************************************)
(* The receive loop: _process_messages takes one frame at a time and       *)
(* awaits _handle_server_event on it before it takes the next.             *)
(***************************************************************************)
\* the loop of transport c takes frame f
Frame(c, f) ==
  /\ loop[c] = "running"
  /\ c \in open
  /\ nframes' = nframes + 1
  /\ received' = Append(received, [conn |-> c, frame |-> f])

\* the last statement of _handle_server_event: emit server.<type>
ServerEmit(log, f) == emit_event(log, "server", f.type, f)

\* the "delta" of a conversation.updated event: {kind: value}, or None
Delta(kind, value) == [kind |-> kind, value |-> value]

NoDelta == [kind |-> None]

HandleSessionCreated(c) ==
  LET f == [type |-> "session.created"] IN
  /\ Frame(c, f)
  /\ session_created' = TRUE
  /\ emitted' = ServerEmit(emit_event(emitted, "", "session.created", f), f)
  /\ UNCHANGED <<websocket, conversation, audio_buffer, tools, netVars,
                 loopVars, sent, invoked, callerVars>>

HandleItemCreated(c, item) ==
  LET f == [type |-> "conversation.item.created", item |-> item]
      conv == add_item(conversation, item)
      formatted_item == IF TruthyId(item.id) THEN get_item(conv, item.id) ELSE NoItem
  IN /\ Frame(c, f)
     /\ conversation' = conv
     /\ emitted' = ServerEmit(
                     emit_event(emitted, "", "conversation.updated",
                                [item |-> formatted_item, delta |-> NoDelta]), f)
     /\ UNCHANGED <<websocket, session_created, audio_buffer, tools, netVars,
                    loopVars, sent, invoked, callerVars>>

\* the three delta branches share their shape: update, then emit
\* conversation.updated with the item and the delta; nothing without an
\* item id or without a delta
\* a variant that updates the item and emits no conversation.updated
DeltaFrame_silent(c, f, conv, delta) ==
  /\ Frame(c, f)
  /\ conversation' = IF TruthyId(f.item_id) /\ Truthy(f.delta) THEN conv
                     ELSE conversation
  /\ emitted' = ServerEmit(emitted, f)
  /\ UNCHANGED <<websocket, session_created, audio_buffer, tools, netVars,
                 loopVars, sent, invoked, callerVars>>

DeltaFrame(c, f, conv, delta) ==
  /\ Frame(c, f)
  /\ IF TruthyId(f.item_id) /\ Truthy(f.delta)
     THEN /\ conversation' = conv
          /\ emitted' = ServerEmit(
                          emit_event(emitted, "", "conversation.updated",
                                     [item |-> get_item(conv, f.item_id),
                                      delta |-> delta]), f)
     ELSE /\ conversation' = conversation
          /\ emitted' = ServerEmit(emitted, f)
  /\ UNCHANGED <<websocket, session_created, audio_buffer, tools, netVars,
                 loopVars, sent, invoked, callerVars>>

HandleAudioDelta(c, item_id, delta) ==
  LET audio_data == decode_base64_audio(delta) IN
  DeltaFrame(c, [type |-> "response.audio.delta", item_id |-> item_id, delta |-> delta],
             update_item_audio(conversation, item_id, audio_data),
             Delta("audio", audio_data))

HandleTextDelta(c, item_id, delta) ==
  DeltaFrame(c, [type |-> "response.text.delta", item_id |-> item_id, delta |-> delta],
             update_item_text(conversation, item_id, delta),
             Delta("text", delta))

HandleTranscriptDelta(c, item_id, delta) ==
  DeltaFrame(c, [type |-> "response.audio_transcript.delta", item_id |-> item_id,
                 delta |-> delta],
             update_item_transcript(conversation, item_id, delta),
             Delta("transcript", delta))

\* _handle_function_call_delta: the arguments accumulator of a known item
AppendArguments(conv, item_id, delta) ==
  [conv EXCEPT !.items[conv.item_lookup[item_id]].formatted.tool =
                 [present |-> TRUE, arguments |-> @.arguments \o delta]]

HandleFunctionCallDelta(c, item_id, delta) ==
  LET f == [type |-> "response.function_call_arguments.delta",
            item_id |-> item_id, delta |-> delta]
  IN /\ Frame(c, f)
     /\ IF TruthyId(item_id) /\ Truthy(delta) /\ HasItem(conversation, item_id)
        THEN LET conv == AppendArguments(conversation, item_id, delta) IN
             /\ conversation' = conv
             /\ emitted' = ServerEmit(
                             emit_event(emitted, "", "conversation.updated",
                                        [item |-> get_item(conv, item_id),
                                         delta |-> Delta("arguments", delta)]), f)
        ELSE /\ conversation' = conversation
             /\ emitted' = ServerEmit(emitted, f)
     /\ UNCHANGED <<websocket, session_created, audio_buffer, tools, netVars,
                    loopVars, sent, invoked, callerVars>>

HandleSpeechStarted(c) ==
  LET f == [type |-> "input_audio_buffer.speech_started"] IN
  /\ Frame(c, f)
  /\ emitted' = ServerEmit(emit_event(emitted, "", "conversation.interrupted", f), f)
  /\ UNCHANGED <<clientVars, netVars, loopVars, sent, invoked, callerVars>>

HandleError(c) ==
  LET f == [type |-> "error"] IN
  /\ Frame(c, f)
  /\ emitted' = ServerEmit(emit_event(emitted, "", "error", f), f)
  /\ UNCHANGED <<clientVars, netVars, loopVars, sent, invoked, callerVars>>

\* _handle_output_item_done.  A known item becomes completed and
\* conversation.item.completed is emitted; a function call is dispatched:
\* a synchronous handler runs inside this step with outcome `outcome`, an
\* asynchronous one suspends the loop until ToolHandlerFinish.
MarkCompleted(conv, item_id) ==
  [conv EXCEPT !.items[conv.item_lookup[item_id]].status = "completed"]

\* the function call the loop is executing, or has executed last: the call
\* id, the frame that completed the item, and how the call came out (None
\* while the handler is awaited)
Call(item, f, outcome) ==
  [call_id |-> item.call_id, frame |-> f, outcome |-> outcome]

HandleOutputItemDone(c, item_id, outcome) ==
  LET f == [type |-> "response.output_item.done", item |-> [id |-> item_id]]
      conv == MarkCompleted(conversation, item_id)
      item == get_item(conv, item_id)
      o1 == [Effects EXCEPT
               !.emitted = emit_event(@, "", "conversation.item.completed",
                                      [item |-> item])]
      invocation == [name |-> item.name, call_id |-> item.call_id, conn |-> c]
  IN /\ Frame(c, f)
     /\ IF ~HasItem(conversation, item_id)
        THEN /\ emitted' = ServerEmit(emitted, f)
             /\ UNCHANGED <<conversation, sent, invoked, loopVars>>
        ELSE /\ conversation' = conv
             /\ IF item.type # "function_call"
                THEN /\ emitted' = ServerEmit(o1.emitted, f)
                     /\ UNCHANGED <<sent, invoked, loopVars>>
                ELSE IF Dispatch(item) # "invoke"
                THEN LET o == WithoutHandler(o1, item) IN
                     /\ sent' = o.sent
                     /\ emitted' = ServerEmit(o.emitted, f)
                     /\ call' = [call EXCEPT ![c] = Call(item, f, Dispatch(item))]
                     /\ UNCHANGED <<invoked, loop>>
                ELSE IF tools[item.name].handler = "sync"
                THEN LET o == AfterHandler(o1, item.call_id, outcome) IN
                     /\ sent' = o.sent
                     /\ emitted' = ServerEmit(o.emitted, f)
                     /\ invoked' = Append(invoked, invocation)
                     /\ call' = [call EXCEPT ![c] = Call(item, f, outcome)]
                     /\ UNCHANGED loop
                ELSE /\ emitted' = o1.emitted
                     /\ invoked' = Append(invoked, invocation)
                     /\ loop' = [loop EXCEPT ![c] = "handler"]
                     /\ call' = [call EXCEPT ![c] = Call(item, f, None)]
                     /\ UNCHANGED sent
     /\ UNCHANGED <<websocket, session_created, audio_buffer, tools, netVars,
                    callerVars>>

\* the awaited handler of transport c's loop returns or raises; the result
\* is sent, server.<type> is emitted and the loop goes on
ToolHandlerFinish(c, outcome) ==
  LET o == AfterHandler(Effects, call[c].call_id, outcome) IN
  /\ loop[c] = "handler"
  /\ sent' = o.sent
  /\ emitted' = ServerEmit(o.emitted, call[c].frame)
  /\ loop' = [loop EXCEPT ![c] = "running"]
  /\ call' = [call EXCEPT ![c].outcome = outcome]
  /\ UNCHANGED <<clientVars, netVars, frameVars, invoked, callerVars>>

(***************************************************************************)
(* The same, with the two sends of send_function_result apart: the call is *)
(* suspended in the send of its item (in websocket.send or in a handler of *)
(* client.conversation.item.create) before response.create is sent.  The   *)
(* loop is "sending_result" while the item of the try block is out and     *)
(* "sending_error" while the item of the except block is out.              *)
(***************************************************************************)
\* the first send of send_function_result(call_id, result)
ResultItemSend(o, call_id, result) ==
  IF ~result.serializable THEN Raise(o)
  ELSE send_event(o, "conversation.item.create",
                  [item |-> [type |-> "function_call_output",
                             call_id |-> call_id, output |-> result]])

\* the except block of _execute_function_call is entered with effects o:
\* the item of the error result is sent; the loop goes on to its
\* response.create, or the send raises, which is logged, and the frame is done
ExceptBlock(c, o) ==
  LET e == ResultItemSend(Caught(o), call[c].call_id, ErrorResult("handler error"))
  IN IF e.ok
     THEN /\ sent' = e.sent
          /\ emitted' = e.emitted
          /\ loop' = [loop EXCEPT ![c] = "sending_error"]
     ELSE /\ sent' = e.sent
          /\ emitted' = ServerEmit(e.emitted, call[c].frame)
          /\ loop' = [loop EXCEPT ![c] = "running"]

\* the awaited handler of transport c's loop returns or raises, and the
\* item of the result, or of the error, is sent
ResultItem(c, outcome) ==
  LET o == IF outcome = "raise" THEN Raise(Effects)
           ELSE ResultItemSend(Effects, call[c].call_id, HandlerResult(outcome))
  IN /\ loop[c] = "handler"
     /\ IF o.ok
        THEN /\ sent' = o.sent
             /\ emitted' = o.emitted
             /\ loop' = [loop EXCEPT ![c] = "sending_result"]
        ELSE ExceptBlock(c, o)
     /\ call' = [call EXCEPT ![c].outcome = outcome]
     /\ UNCHANGED <<clientVars, netVars, frameVars, invoked, callerVars>>

\* a variant whose except block writes the error item to the transport of
\* the loop, whatever the state of the client's transport
ResultResponse_resend(c) ==
  LET o == send_event(Effects, "response.create", << >>)
      item == [conn |-> c, event_id |-> Len(sent) + 1,
               type |-> "conversation.item.create",
               data |-> [item |-> [type |-> "function_call_output",
                                   call_id |-> call[c].call_id,
                                   output |-> ErrorResult("handler error")]]]
  IN /\ loop[c] \in {"sending_result", "sending_error"}
     /\ IF o.ok
        THEN /\ sent' = o.sent
             /\ emitted' = ServerEmit(o.emitted, call[c].frame)
        ELSE /\ sent' = Append(sent, item)
             /\ emitted' = ServerEmit(emitted, call[c].frame)
     /\ loop' = [loop EXCEPT ![c] = "running"]
     /\ UNCHANGED <<clientVars, netVars, call, frameVars, invoked, callerVars>>

\* the send of the item has returned: response.create is sent and the frame
\* is done; when that send raises in the try block, the except block is
\* entered; when it raises in the except block, it is logged
ResultResponse(c) ==
  LET o == send_event(Effects, "response.create", << >>) IN
  /\ loop[c] \in {"sending_result", "sending_error"}
  /\ IF o.ok
     THEN /\ sent' = o.sent
          /\ emitted' = ServerEmit(o.emitted, call[c].frame)
          /\ loop' = [loop EXCEPT ![c] = "running"]
     ELSE IF loop[c] = "sending_result"
     THEN ExceptBlock(c, o)
     ELSE /\ sent' = o.sent
          /\ emitted' = ServerEmit(o.emitted, call[c].frame)
          /\ loop' = [loop EXCEPT ![c] = "running"]
  /\ UNCHANGED <<clientVars, netVars, call, frameVars, invoked, callerVars>>

(***************************************************************************)
(* Frames the loop cannot process.  _process_messages catches              *)
(* JSONDecodeError and Exception around each frame, logs, and takes the    *)
(* next frame; what _handle_server_event did before it raised stays done.  *)
(***************************************************************************)
\* a frame whose text json.loads rejects: no event, so no type
Unparsable == [type |-> None, text |-> "not json"]

\* a type _handle_server_event has no branch for
UnknownType == "rate_limits.updated"

\* a delta that is a JSON number instead of a string: truthy, and
\* "text += delta" raises TypeError
NotAString == <<"<number>">>

\* json.loads raises JSONDecodeError: logged, nothing else happens
HandleUnparsable(c) ==
  /\ Frame(c, Unparsable)
  /\ UNCHANGED <<clientVars, netVars, loopVars, logVars, callerVars>>

\* no branch matches: only the last statement runs
HandleUnknownType(c) ==
  LET f == [type |-> UnknownType] IN
  /\ Frame(c, f)
  /\ emitted' = ServerEmit(emitted, f)
  /\ UNCHANGED <<clientVars, netVars, loopVars, sent, invoked, callerVars>>

\* response.text.delta with a number as delta: update_item_text raises in
\* "+=" on a known item and _handle_server_event is left before any
\* emission; on an unknown item nothing is added and both emissions happen
HandleTextDeltaNotAString(c, item_id) ==
  LET f == [type |-> "response.text.delta", item_id |-> item_id,
            delta |-> NotAString]
  IN /\ Frame(c, f)
     /\ IF HasItem(conversation, item_id)
        THEN emitted' = emitted
        ELSE emitted' = ServerEmit(
                          emit_event(emitted, "", "conversation.updated",
                                     [item |-> NoItem,
                                      delta |-> Delta("text", NotAString)]), f)
     /\ UNCHANGED <<clientVars, netVars, loopVars, sent, invoked, callerVars>>

\* response.function_call_arguments.delta with a number as delta:
\* _handle_function_call_delta creates the accumulator of a known item that
\* has none, then raises in "+=" before any emission
HandleFunctionCallDeltaNotAString(c, item_id) ==
  LET f == [type |-> "response.function_call_arguments.delta",
            item_id |-> item_id, delta |-> NotAString]
  IN /\ Frame(c, f)
     /\ IF HasItem(conversation, item_id)
        THEN /\ conversation' = AppendArguments(conversation, item_id, << >>)
             /\ emitted' = emitted
        ELSE /\ conversation' = conversation
             /\ emitted' = ServerEmit(emitted, f)
     /\ UNCHANGED <<websocket, session_created, audio_buffer, tools, netVars,
                    loopVars, sent, invoked, callerVars>>

\* the remote side closes transport c
ServerClose(c) ==
  /\ c \in open
  /\ open' = open \ {c}
  /\ UNCHANGED <<clientVars, nconns, loopVars, frameVars, logVars, callerVars>>

\* "async for message in self.websocket" ends on a closed transport
LoopExit(c) ==
  /\ loop[c] = "running"
  /\ c \notin open
  /\ loop' = [loop EXCEPT ![c] = "ended"]
  /\ UNCHANGED <<clientVars, netVars, call, frameVars, logVars, callerVars>>

(***************************************************************************)
(* RealtimeErrorHandler.with_retry.                                        *)
(***************************************************************************)
\* with_retry(operation) is called: last_exception = None, attempt = 0
RetryStart(op) ==
  /\ retry_pc = "idle"
  /\ retry_pc' = "invoke"
  /\ retry_op' = op
  /\ attempt' = 0
  /\ last_exception' = None
  /\ retry_result' = None
  /\ invocations' = << >>
  /\ sleeps' = << >>
  /\ counts_before' = error_counts
  /\ ncalls' = ncalls + 1

\* a variant that takes a returned False as a failure and tries again
OperationDone_retry_on_false(outcome) ==
  /\ invocations' = Append(invocations, outcome)
  /\ IF outcome.kind = "return" /\ (outcome.value = TRUE \/ attempt >= max_retries)
     THEN /\ retry_pc' = "returned"
          /\ retry_result' = outcome.value
          /\ UNCHANGED <<last_exception, error_counts, sleeps>>
     ELSE IF outcome.kind = "return"
     THEN /\ retry_pc' = "sleeping"
          /\ sleeps' = Append(sleeps, retry_delay * Pow2(attempt))
          /\ UNCHANGED <<last_exception, error_counts, retry_result>>
     ELSE /\ last_exception' = outcome.value
          /\ error_counts' = [error_counts EXCEPT ![outcome.value] = @ + 1]
          /\ IF attempt < max_retries
             THEN /\ retry_pc' = "sleeping"
                  /\ sleeps' = Append(sleeps, retry_delay * Pow2(attempt))
             ELSE /\ retry_pc' = "raised"
                  /\ UNCHANGED sleeps
          /\ UNCHANGED retry_result
  /\ UNCHANGED <<retry_op, attempt, counts_before, ncalls, max_retries, retry_delay>>

\* a variant whose backoff starts at 2 * retry_delay
OperationDone_late_backoff(outcome) ==
  /\ invocations' = Append(invocations, outcome)
  /\ IF outcome.kind = "return"
     THEN /\ retry_pc' = "returned"
          /\ retry_result' = outcome.value
          /\ UNCHANGED <<last_exception, error_counts, sleeps>>
     ELSE /\ last_exception' = outcome.value
          /\ error_counts' = [error_counts EXCEPT ![outcome.value] = @ + 1]
          /\ IF attempt < max_retries
             THEN /\ retry_pc' = "sleeping"
                  /\ sleeps' = Append(sleeps, retry_delay * Pow2(attempt + 1))
             ELSE /\ retry_pc' = "raised"
                  /\ UNCHANGED sleeps
          /\ UNCHANGED retry_result
  /\ UNCHANGED <<retry_op, attempt, counts_before, ncalls, max_retries, retry_delay>>

\* a variant whose backoff grows linearly: retry_delay * (attempt + 1)
OperationDone_linear_backoff(outcome) ==
  /\ invocations' = Append(invocations, outcome)
  /\ IF outcome.kind = "return"
     THEN /\ retry_pc' = "returned"
          /\ retry_result' = outcome.value
          /\ UNCHANGED <<last_exception, error_counts, sleeps>>
     ELSE /\ last_exception' = outcome.value
          /\ error_counts' = [error_counts EXCEPT ![outcome.value] = @ + 1]
          /\ IF attempt < max_retries
             THEN /\ retry_pc' = "sleeping"
                  /\ sleeps' = Append(sleeps, retry_delay * (attempt + 1))
             ELSE /\ retry_pc' = "raised"
                  /\ UNCHANGED sleeps
          /\ UNCHANGED retry_result
  /\ UNCHANGED <<retry_op, attempt, counts_before, ncalls, max_retries, retry_delay>>

\* one pass of the for loop, from the outcome of "await operation()" on:
\* a returned value is returned at once; an exception is counted under its
\* type, and then either the backoff sleep starts or, on the last attempt,
\* the loop ends and last_exception is raised
OperationDone(outcome) ==
  /\ invocations' = Append(invocations, outcome)
  /\ IF outcome.kind = "return"
     THEN /\ retry_pc' = "returned"
          /\ retry_result' = outcome.value
          /\ UNCHANGED <<last_exception, error_counts, sleeps>>
     ELSE /\ last_exception' = outcome.value
          /\ error_counts' = [error_counts EXCEPT ![outcome.value] = @ + 1]
          /\ IF attempt < max_retries
             THEN /\ retry_pc' = "sleeping"
                  /\ sleeps' = Append(sleeps, retry_delay * Pow2(attempt))
             ELSE /\ retry_pc' = "raised"
                  /\ UNCHANGED sleeps
          /\ UNCHANGED retry_result
  /\ UNCHANGED <<retry_op, attempt, counts_before, ncalls, max_retries, retry_delay>>

\* with_retry is called on an operation of the caller's
RetryCall ==
  /\ ncalls < MaxCalls
  /\ RetryStart("operation")
  /\ UNCHANGED <<clientVars, netVars, loopVars, frameVars, logVars, connVars,
                 discVars, last_op, handlerVars, crVars, emVars, appVars>>

\* the operation is invoked and returns v or raises e
RetryInvoke(outcome) ==
  /\ retry_pc = "invoke"
  /\ retry_op = "operation"
  /\ OperationDone(outcome)
  /\ UNCHANGED <<clientVars, netVars, loopVars, frameVars, logVars, connVars,
                 discVars, last_op, crVars, emVars, appVars>>

\* asyncio.sleep(wait_time) is over: the next attempt
RetryWake ==
  /\ retry_pc = "sleeping"
  /\ retry_pc' = "invoke"
  /\ attempt' = attempt + 1
  /\ UNCHANGED <<clientVars, netVars, loopVars, frameVars, logVars, connVars,
                 discVars, last_op, handlerVars, crVars, emVars, appVars, retry_op, last_exception,
                 retry_result, invocations, sleeps, counts_before, ncalls>>

\* the caller takes the value or the exception; the handler can be used again
RetryDone ==
  /\ retry_pc \in {"returned", "raised"}
  /\ retry_op = "operation"
  /\ retry_pc' = "idle"
  /\ UNCHANGED <<clientVars, netVars, loopVars, frameVars, logVars, connVars,
                 discVars, last_op, handlerVars, crVars, emVars, appVars, retry_op, attempt,
                 last_exception, retry_result, invocations, sleeps, counts_before,
                 ncalls>>

OperationOutcomes ==
  [kind : {"return"}, value : {TRUE, FALSE}] \cup [kind : {"raise"}, value : ErrorTypes]

(***************************************************************************)
(* RealtimeWebSocketClient.connect.  Its try/except turns every failure    *)
(* into the return value False.                                            *)
(***************************************************************************)
\* connect() returns `result` to its caller; with_retry takes it as the
\* value "await operation()" returned
ConnectReturns(result) ==
  /\ conn_pc' = "idle"
  /\ conn_result' = result
  /\ IF conn_caller = "with_retry"
     THEN OperationDone([kind |-> "return", value |-> result])
     ELSE UNCHANGED <<retryVars, handlerVars>>
  /\ UNCHANGED <<conn_caller, discVars, last_op, crVars, emVars, appVars>>

\* the application calls connect()
ConnectCall ==
  /\ conn_pc = "idle"
  /\ retry_pc = "idle"
  /\ conn_pc' = "opening"
  /\ conn_caller' = "app"
  /\ UNCHANGED <<clientVars, netVars, loopVars, frameVars, logVars, conn_result,
                 discVars, last_op, handlerVars, retryVars, crVars, emVars, appVars>>

\* websockets.connect succeeds: the transport is stored and the task of the
\* receive loop is created
ConnectOpened ==
  LET c == nconns + 1 IN
  /\ conn_pc = "opening"
  /\ nconns < MaxConns
  /\ nconns' = c
  /\ open' = open \cup {c}
  /\ websocket' = c
  /\ loop' = [loop EXCEPT ![c] = "running"]
  /\ conn_pc' = "waiting"
  /\ UNCHANGED <<session_created, conversation, audio_buffer, tools, call,
                 frameVars, logVars, conn_caller, conn_result, discVars, last_op,
                 handlerVars, retryVars, crVars, emVars, appVars>>

\* websockets.connect raises: connect() logs and returns False
ConnectRefused ==
  /\ conn_pc = "opening"
  /\ ConnectReturns(FALSE)
  /\ UNCHANGED <<clientVars, netVars, loopVars, frameVars, logVars>>

\* _wait_for_session sees session_created: update_session() pushes the
\* configuration; connect() returns True, or False when the push raises
ConnectSessionReady ==
  LET o == update_session(Effects, tools) IN
  /\ conn_pc = "waiting"
  /\ session_created
  /\ sent' = o.sent
  /\ emitted' = o.emitted
  /\ ConnectReturns(o.ok)
  /\ UNCHANGED <<clientVars, netVars, loopVars, frameVars, invoked>>

\* _wait_for_session gives up: TimeoutError, connect() returns False and
\* leaves self.websocket as it is
ConnectTimeout ==
  /\ conn_pc = "waiting"
  /\ ~session_created
  /\ ConnectReturns(FALSE)
  /\ UNCHANGED <<clientVars, netVars, loopVars, frameVars, logVars>>

(***************************************************************************)
(* VoiceAssistantManager.connect_realtime: with_retry around connect.      *)
(***************************************************************************)
ConnectRealtimeCall ==
  /\ cr_pc = "idle"
  /\ conn_pc = "idle"
  /\ ncalls < MaxCalls
  /\ RetryStart("connect")
  /\ cr_pc' = "awaiting"
  /\ UNCHANGED <<clientVars, netVars, loopVars, frameVars, logVars, connVars,
                 discVars, last_op, handlerVars, cr_result, emVars, appVars>>

\* with_retry invokes self.realtime_client.connect
RetryInvokeConnect ==
  /\ retry_pc = "invoke"
  /\ retry_op = "connect"
  /\ conn_pc = "idle"
  /\ retry_pc' = "awaiting"
  /\ conn_pc' = "opening"
  /\ conn_caller' = "with_retry"
  /\ UNCHANGED <<clientVars, netVars, loopVars, frameVars, logVars, conn_result,
                 discVars, last_op, handlerVars, crVars, emVars, appVars, retry_op, attempt,
                 last_exception, retry_result, invocations, sleeps, counts_before,
                 ncalls>>

\* with_retry returned a value ("if success") or raised (the except branch)
ConnectRealtimeReturn ==
  /\ cr_pc = "awaiting"
  /\ retry_pc \in {"returned", "raised"}
  /\ cr_result' = (retry_pc = "returned" /\ retry_result = TRUE)
  /\ cr_pc' = "idle"
  /\ retry_pc' = "idle"
  /\ UNCHANGED <<clientVars, netVars, loopVars, frameVars, logVars, connVars,
                 discVars, last_op, handlerVars, retry_op, attempt, last_exception,
                 retry_result, invocations, sleeps, counts_before, ncalls, emVars, appVars>>

(***************************************************************************)
(* RealtimeWebSocketClient.disconnect.                                     *)
(***************************************************************************)
\* what disconnect() does after "await self.websocket.close()"
DisconnectTail ==
  /\ session_created' = FALSE
  /\ conversation' = reset
  /\ resets' = resets + 1
  /\ audio_buffer' = << >>
  /\ disconnects' = disconnects + 1
  /\ disc_pc' = "idle"
  /\ last_op' = [op |-> "disconnect", result |-> "ok"]

\* a variant that returns at once without a transport
DisconnectCall_skip_when_absent ==
  /\ disc_pc = "idle"
  /\ disconnects < MaxDisconnects
  /\ IF websocket # 0
     THEN /\ open' = open \ {websocket}
          /\ disc_pc' = "closing"
          /\ UNCHANGED <<clientVars, nconns, resets, disconnects, last_op>>
     ELSE /\ disconnects' = disconnects + 1
          /\ last_op' = [op |-> "disconnect", result |-> "ok"]
          /\ UNCHANGED <<clientVars, netVars, disc_pc, resets>>
  /\ UNCHANGED <<loopVars, frameVars, logVars, connVars, handlerVars, retryVars,
                 crVars, emVars, appVars>>

\* disconnect() is called: with a transport it starts closing it, without
\* one it runs to its end
DisconnectCall ==
  /\ disc_pc = "idle"
  /\ disconnects < MaxDisconnects
  /\ IF websocket # 0
     THEN /\ open' = open \ {websocket}
          /\ disc_pc' = "closing"
          /\ UNCHANGED <<clientVars, nconns, resets, disconnects, last_op>>
     ELSE /\ DisconnectTail
          /\ UNCHANGED <<websocket, tools, netVars>>
  /\ UNCHANGED <<loopVars, frameVars, logVars, connVars, handlerVars, retryVars,
                 crVars, emVars, appVars>>

\* close() is over: the transport is dropped and the state is reset
DisconnectFinish ==
  /\ disc_pc = "closing"
  /\ websocket' = 0
  /\ DisconnectTail
  /\ UNCHANGED <<tools, netVars, loopVars, frameVars, logVars, connVars,
                 handlerVars, retryVars, crVars, emVars, appVars>>

(***************************************************************************)
(* add_tool, send_audio_data, commit_audio.                                *)
(***************************************************************************)
\* is_connected: a transport object is held (open or not)
is_connected == websocket # 0

\* a variant that replaces the entry of a registered name
AddTool_overwrite(name, version, handler) ==
  LET registry == (name :> [definition |-> [name |-> name, version |-> version],
                            handler |-> handler]) @@ tools
      o == update_session(Effects, registry)
      returns(result) == last_op' = [op |-> "add_tool", name |-> name,
                                     version |-> version, handler |-> handler,
                                     result |-> result]
  IN /\ IF ~TruthyId(name)
        THEN /\ returns("ValueError: no name")
             /\ UNCHANGED <<tools, sent, emitted>>
        ELSE /\ tools' = registry
             /\ IF is_connected
                THEN /\ sent' = o.sent
                     /\ emitted' = o.emitted
                     /\ returns(IF o.ok THEN "ok" ELSE "send failed")
                ELSE /\ returns("ok")
                     /\ UNCHANGED <<sent, emitted>>
     /\ UNCHANGED <<websocket, session_created, conversation, audio_buffer,
                    netVars, loopVars, frameVars, invoked, connVars, discVars,
                    handlerVars, retryVars, crVars, emVars, appVars>>

\* a variant that takes the tool out of the registry when its push fails
AddTool_rollback(name, version, handler) ==
  LET registry == (name :> [definition |-> [name |-> name, version |-> version],
                            handler |-> handler]) @@ tools
      o == update_session(Effects, registry)
      returns(result) == last_op' = [op |-> "add_tool", name |-> name,
                                     version |-> version, handler |-> handler,
                                     result |-> result]
  IN /\ IF ~TruthyId(name)
        THEN /\ returns("ValueError: no name")
             /\ UNCHANGED <<tools, sent, emitted>>
        ELSE IF name \in DOMAIN tools
        THEN /\ returns("ValueError: already exists")
             /\ UNCHANGED <<tools, sent, emitted>>
        ELSE /\ tools' = IF is_connected /\ ~o.ok THEN tools ELSE registry
             /\ IF is_connected
                THEN /\ sent' = o.sent
                     /\ emitted' = o.emitted
                     /\ returns(IF o.ok THEN "ok" ELSE "send failed")
                ELSE /\ returns("ok")
                     /\ UNCHANGED <<sent, emitted>>
     /\ UNCHANGED <<websocket, session_created, conversation, audio_buffer,
                    netVars, loopVars, frameVars, invoked, connVars, discVars,
                    handlerVars, retryVars, crVars, emVars, appVars>>

\* add_tool(definition, handler), definition = {name, version}
AddTool(name, version, handler) ==
  LET registry == (name :> [definition |-> [name |-> name, version |-> version],
                            handler |-> handler]) @@ tools
      o == update_session(Effects, registry)
      returns(result) == last_op' = [op |-> "add_tool", name |-> name,
                                     version |-> version, handler |-> handler,
                                     result |-> result]
  IN /\ IF ~TruthyId(name)
        THEN /\ returns("ValueError: no name")
             /\ UNCHANGED <<tools, sent, emitted>>
        ELSE IF name \in DOMAIN tools
        THEN /\ returns("ValueError: already exists")
             /\ UNCHANGED <<tools, sent, emitted>>
        ELSE /\ tools' = registry
             /\ IF is_connected
                THEN /\ sent' = o.sent
                     /\ emitted' = o.emitted
                     /\ returns(IF o.ok THEN "ok" ELSE "send failed")
                ELSE /\ returns("ok")
                     /\ UNCHANGED <<sent, emitted>>
     /\ UNCHANGED <<websocket, session_created, conversation, audio_buffer,
                    netVars, loopVars, frameVars, invoked, connVars, discVars,
                    handlerVars, retryVars, crVars, emVars, appVars>>

\* the application calls send_event(event_type): it returns, or raises
\* RuntimeError without a transport and ConnectionClosed on a closed one
SendEvent(event_type) ==
  LET o == send_event(Effects, event_type, << >>) IN
  /\ sent' = o.sent
  /\ emitted' = o.emitted
  /\ last_op' = [op |-> "send_event", type |-> event_type,
                 event_id |-> IF o.ok THEN generate_event_id(Effects) ELSE 0,
                 result |-> IF o.ok THEN "ok"
                            ELSE IF websocket = 0 THEN "RuntimeError: not connected"
                            ELSE "ConnectionClosed"]
  /\ UNCHANGED <<clientVars, netVars, loopVars, frameVars, invoked, connVars,
                 discVars, handlerVars, retryVars, crVars, emVars, appVars>>

\* a variant that puts the new chunk in front of the buffered bytes
SendAudioData_prepend(audio_data) ==
  LET base64_audio == encode_audio_to_base64(audio_data)
      o == send_event(Effects, "input_audio_buffer.append", [audio |-> base64_audio])
  IN /\ sent' = o.sent
     /\ emitted' = o.emitted
     /\ audio_buffer' = IF o.ok THEN audio_data \o audio_buffer
                        ELSE audio_buffer
     /\ last_op' = [op |-> "send_audio_data",
                    result |-> IF o.ok THEN "ok" ELSE "send failed"]
     /\ UNCHANGED <<websocket, session_created, conversation, tools, netVars,
                    loopVars, frameVars, invoked, connVars, discVars, handlerVars,
                    retryVars, crVars, emVars, appVars>>

\* a variant that commits and keeps the buffered bytes
CommitAudio_keep_buffer ==
  LET o1 == IF audio_buffer # << >>
            THEN send_event(Effects, "input_audio_buffer.commit", << >>)
            ELSE Effects
      committed == audio_buffer # << >> /\ o1.ok
      o2 == send_event(o1, "response.create", << >>)
  IN /\ sent' = o2.sent
     /\ emitted' = o2.emitted
     /\ conversation' = IF committed
                        THEN [conversation EXCEPT
                                !.pending_audio = [present |-> TRUE,
                                                   data |-> audio_buffer]]
                        ELSE conversation
     /\ last_op' = [op |-> "commit_audio",
                    result |-> IF o2.ok THEN "ok" ELSE "send failed"]
     /\ UNCHANGED <<websocket, session_created, tools, audio_buffer, netVars,
                    loopVars, frameVars, invoked, connVars, discVars, handlerVars,
                    retryVars, crVars, emVars, appVars>>

\* send_audio_data(bytes): the append event, then the local buffer
SendAudioData(audio_data) ==
  LET base64_audio == encode_audio_to_base64(audio_data)
      o == send_event(Effects, "input_audio_buffer.append", [audio |-> base64_audio])
  IN /\ IF Truthy(base64_audio)
        THEN /\ sent' = o.sent
             /\ emitted' = o.emitted
             /\ audio_buffer' = IF o.ok THEN audio_buffer \o audio_data
                                ELSE audio_buffer
             /\ last_op' = [op |-> "send_audio_data",
                            result |-> IF o.ok THEN "ok" ELSE "send failed"]
        ELSE /\ last_op' = [op |-> "send_audio_data", result |-> "ok"]
             /\ UNCHANGED <<sent, emitted, audio_buffer>>
     /\ UNCHANGED <<websocket, session_created, conversation, tools, netVars,
                    loopVars, frameVars, invoked, connVars, discVars, handlerVars,
                    retryVars, crVars, emVars, appVars>>

\* commit_audio: commit a non-empty buffer, then always response.create
CommitAudio ==
  LET o1 == IF audio_buffer # << >>
            THEN send_event(Effects, "input_audio_buffer.commit", << >>)
            ELSE Effects
      committed == audio_buffer # << >> /\ o1.ok
      o2 == send_event(o1, "response.create", << >>)
  IN /\ sent' = o2.sent
     /\ emitted' = o2.emitted
     /\ conversation' = IF committed
                        THEN [conversation EXCEPT
                                !.pending_audio = [present |-> TRUE,
                                                   data |-> audio_buffer]]
                        ELSE conversation
     /\ audio_buffer' = IF committed THEN << >> ELSE audio_buffer
     /\ last_op' = [op |-> "commit_audio",
                    result |-> IF o2.ok THEN "ok" ELSE "send failed"]
     /\ UNCHANGED <<websocket, session_created, tools, netVars, loopVars,
                    frameVars, invoked, connVars, discVars, handlerVars,
                    retryVars, crVars, emVars, appVars>>

(***************************************************************************)
(* commit_audio, suspended in the send of its commit event (in             *)
(* websocket.send or in a handler of client.input_audio_buffer.commit)     *)
(* while other tasks run.  CommitAudio above is the call that is not       *)
(* suspended.                                                              *)
(***************************************************************************)
\* commit_audio is called with a non-empty buffer: the commit event is
\* written, or the send raises; "found" is the buffer the call has tested
CommitAudioStart ==
  LET o == send_event(Effects, "input_audio_buffer.commit", << >>) IN
  /\ commit_call.pc = "idle"
  /\ audio_buffer # << >>
  /\ sent' = o.sent
  /\ emitted' = o.emitted
  /\ IF o.ok
     THEN /\ commit_call' = [pc |-> "sent_commit", found |-> audio_buffer]
          /\ UNCHANGED last_op
     ELSE /\ last_op' = [op |-> "commit_audio", result |-> "send failed"]
          /\ UNCHANGED commit_call
  /\ UNCHANGED <<clientVars, netVars, loopVars, frameVars, invoked, connVars,
                 discVars, handlerVars, retryVars, crVars, emVars, history,
                 text_call, session_config, monVars>>

\* the send of the commit event has returned: the buffer, as it is now, is
\* kept as pending audio and cleared, and response.create is sent
CommitAudioResume ==
  LET o == send_event(Effects, "response.create", << >>) IN
  /\ commit_call.pc = "sent_commit"
  /\ conversation' = [conversation EXCEPT
                        !.pending_audio = [present |-> TRUE, data |-> audio_buffer]]
  /\ audio_buffer' = << >>
  /\ sent' = o.sent
  /\ emitted' = o.emitted
  /\ last_op' = [op |-> "commit_audio",
                 result |-> IF o.ok THEN "ok" ELSE "send failed"]
  /\ commit_call' = [commit_call EXCEPT !.pc = "idle"]
  /\ UNCHANGED <<websocket, session_created, tools, netVars, loopVars,
                 frameVars, invoked, connVars, discVars, handlerVars, retryVars,
                 crVars, emVars, history, text_call, session_config, monVars>>

\* a variant that sends the keyword arguments instead of the configuration
UpdateSession_patch_only(kwargs) ==
  LET o == send_event(Effects, "session.update", session_data(kwargs, tools))
  IN /\ session_config' = kwargs @@ session_config
     /\ sent' = o.sent
     /\ emitted' = o.emitted
     /\ last_op' = [op |-> "update_session",
                    result |-> IF o.ok THEN "ok" ELSE "send failed"]
     /\ UNCHANGED <<clientVars, netVars, loopVars, frameVars, invoked, connVars,
                    discVars, handlerVars, retryVars, crVars, emVars, history,
                    text_call, commit_call, monVars>>

\* update_session(**kwargs), called by the application: the keyword
\* arguments are merged into the configuration, then the whole is sent
UpdateSession(kwargs) ==
  LET config == kwargs @@ session_config
      o == send_event(Effects, "session.update", session_data(config, tools))
  IN /\ session_config' = config
     /\ sent' = o.sent
     /\ emitted' = o.emitted
     /\ last_op' = [op |-> "update_session",
                    result |-> IF o.ok THEN "ok" ELSE "send failed"]
     /\ UNCHANGED <<clientVars, netVars, loopVars, frameVars, invoked, connVars,
                    discVars, handlerVars, retryVars, crVars, emVars, history,
                    text_call, commit_call, monVars>>

(***************************************************************************)
(* send_text_message: two send_event calls, each awaited.  The call may be *)
(* suspended in the first one (in websocket.send or in a handler of        *)
(* client.conversation.item.create), and other tasks run meanwhile.        *)
(***************************************************************************)
Texts == {<<"Hello">>, <<"Bye">>}

\* the item send_text_message builds
UserMessage(text) ==
  [type |-> "message", role |-> "user",
   content |-> <<[type |-> "input_text", text |-> text]>>]

\* send_text_message(text) is called: the item is written, or the send raises
SendTextCall(text) ==
  LET o == send_event(Effects, "conversation.item.create",
                      [item |-> UserMessage(text)])
  IN /\ text_call.pc = "idle"
     /\ sent' = o.sent
     /\ emitted' = o.emitted
     /\ IF o.ok
        THEN /\ text_call' = [pc |-> "sent_item", text |-> text]
             /\ UNCHANGED last_op
        ELSE /\ last_op' = [op |-> "send_text_message", result |-> "send failed"]
             /\ UNCHANGED text_call
     /\ UNCHANGED <<clientVars, netVars, loopVars, frameVars, invoked, connVars,
                    discVars, handlerVars, retryVars, crVars, emVars, history, session_config,
                 commit_call, monVars>>

\* a variant that returns without requesting a response
SendTextFinish_no_response ==
  /\ text_call.pc = "sent_item"
  /\ last_op' = [op |-> "send_text_message", result |-> "ok"]
  /\ text_call' = [text_call EXCEPT !.pc = "idle"]
  /\ UNCHANGED <<clientVars, netVars, loopVars, frameVars, logVars, connVars,
                 discVars, handlerVars, retryVars, crVars, emVars, history, session_config,
                 commit_call, monVars>>

\* the first send_event has returned: response.create is written, or the
\* send raises
SendTextFinish ==
  LET o == send_event(Effects, "response.create", << >>) IN
  /\ text_call.pc = "sent_item"
  /\ sent' = o.sent
  /\ emitted' = o.emitted
  /\ last_op' = [op |-> "send_text_message",
                 result |-> IF o.ok THEN "ok" ELSE "send failed"]
  /\ text_call' = [text_call EXCEPT !.pc = "idle"]
  /\ UNCHANGED <<clientVars, netVars, loopVars, frameVars, invoked, connVars,
                 discVars, handlerVars, retryVars, crVars, emVars, history, session_config,
                 commit_call, monVars>>

(***************************************************************************)
(* The application reads the history.  The list get_conversation_history   *)
(* returns is new, the items in it are the objects of self.items: refs     *)
(* names them by their position in self.items, list is what they were when *)
(* the call returned, epoch the reset() after which self.items was built.  *)
(***************************************************************************)
HistoryLimits == {-1, 0, 1, 2, DefaultHistoryLimit}

NoHistory ==
  [called |-> FALSE, limit |-> 0, epoch |-> 0, refs |-> << >>, list |-> << >>]

\* the state with every item replaced by its position in self.items
Positions(conv) == [conv EXCEPT !.items = [i \in 1..Len(conv.items) |-> i]]

\* get_conversation_history(limit) returns
GetHistory(limit) ==
  /\ history' = [called |-> TRUE, limit |-> limit, epoch |-> resets,
                 refs |-> get_conversation_history(Positions(conversation), limit),
                 list |-> get_conversation_history(conversation, limit)]
  /\ UNCHANGED <<clientVars, netVars, loopVars, frameVars, logVars, connVars,
                 discVars, last_op, handlerVars, retryVars, crVars, emVars,
                 text_call, session_config, commit_call, monVars>>

\* the caller empties the list it was given
ClearReturnedList ==
  /\ history.called
  /\ history.refs # << >>
  /\ history' = [history EXCEPT !.refs = << >>, !.list = << >>]
  /\ UNCHANGED <<clientVars, netVars, loopVars, frameVars, logVars, connVars,
                 discVars, last_op, handlerVars, retryVars, crVars, emVars,
                 text_call, session_config, commit_call, monVars>>

\* what the caller reads from the returned list now
HistoryView == [i \in 1..Len(history.refs) |-> conversation.items[history.refs[i]]]

(***************************************************************************)
(* EventManager.  The handlers of one event type, one emit_event call at   *)
(* a time, one wait_for_event call.  "for handler in self.handlers[...]"   *)
(* iterates the live list by position: emission.index is the number of     *)
(* entries the iterator has passed.  Payloads are numbered 1, 2, ... in    *)
(* the order of the emit_event calls; 0 is a future without a result.      *)
(***************************************************************************)
\* the closure wait_for_event registers
one_time_handler == "one_time_handler"

\* asyncio.iscoroutinefunction(handler)
IsCoroutine(h) == h = "h_async"

Registered_(hs, h) == \E i \in 1..Len(hs) : hs[i] = h

\* list.remove: the first occurrence goes; ValueError (caught) without one
ListRemove(hs, h) ==
  IF ~Registered_(hs, h) THEN hs
  ELSE LET k == CHOOSE i \in 1..Len(hs) :
                  hs[i] = h /\ \A j \in 1..(i - 1) : hs[j] # h
       IN SubSeq(hs, 1, k - 1) \o SubSeq(hs, k + 1, Len(hs))

\* the for loop of emit_event from position index on, up to the first
\* coroutine handler (awaited: the emission suspends in it) or the end of
\* the list; a plain handler runs to its end, an exception of it is logged;
\* one_time_handler resolves the future unless it is done
RECURSIVE RunHandlers(_, _, _, _, _)
RunHandlers(hs, index, payload, log, future) ==
  IF index >= Len(hs)
  THEN [index |-> index, log |-> log, future |-> future, suspended |-> FALSE]
  ELSE LET h == hs[index + 1]
           invoked_ == Append(log, [handler |-> h, payload |-> payload])
       IN IF IsCoroutine(h)
          THEN [index |-> index + 1, log |-> invoked_, future |-> future,
                suspended |-> TRUE]
          ELSE RunHandlers(hs, index + 1, payload, invoked_,
                           IF h = one_time_handler /\ future = 0 THEN payload
                           ELSE future)

\* register_handler(event_type, h)
RegisterHandler(h) ==
  /\ handlers' = Append(handlers, h)
  /\ UNCHANGED <<emission, calls, waiter, clientSide>>

\* remove_handler(event_type, h); emission.stable keeps the handlers that
\* have been registered since the emission in progress started
RemoveHandler(h) ==
  /\ handlers' = ListRemove(handlers, h)
  /\ emission' = [emission EXCEPT !.stable = @ \ {h}]
  /\ UNCHANGED <<calls, waiter, clientSide>>

\* emit_event(event_type, payload) is called and runs to its first await
EmitEventCall ==
  LET payload == emission.payload + 1
      r == RunHandlers(handlers, 0, payload, calls, waiter.future)
  IN /\ emission.pc = "idle"
     /\ emission.payload < MaxEmits
     /\ emission' = [pc |-> IF r.suspended THEN "suspended" ELSE "idle",
                     index |-> r.index, payload |-> payload,
                     stable |-> {handlers[i] : i \in 1..Len(handlers)}]
     /\ calls' = r.log
     /\ waiter' = [waiter EXCEPT !.future = r.future]
     /\ UNCHANGED <<handlers, clientSide>>

\* the awaited coroutine handler returns or raises: the for loop goes on,
\* over the list as it is now
EmitEventResume ==
  LET r == RunHandlers(handlers, emission.index, emission.payload, calls,
                       waiter.future)
  IN /\ emission.pc = "suspended"
     /\ emission' = [emission EXCEPT
                       !.pc = IF r.suspended THEN "suspended" ELSE "idle",
                       !.index = r.index]
     /\ calls' = r.log
     /\ waiter' = [waiter EXCEPT !.future = r.future]
     /\ UNCHANGED <<handlers, clientSide>>

\* wait_for_event(event_type, timeout) is called: the future is created,
\* one_time_handler is registered, the caller awaits the future
WaitForEventCall ==
  /\ waiter.pc = "idle"
  /\ handlers' = Append(handlers, one_time_handler)
  /\ waiter' = [pc |-> "waiting", future |-> 0, result |-> 0,
                since |-> emission.payload, before |-> handlers]
  /\ UNCHANGED <<emission, calls, clientSide>>

\* what the finally clause does
WaitForEventFinally ==
  /\ handlers' = ListRemove(handlers, one_time_handler)
  /\ emission' = [emission EXCEPT !.stable = @ \ {one_time_handler}]
  /\ UNCHANGED <<calls, clientSide>>

\* the caller resumes with the result of the future
WaitForEventReturn ==
  /\ waiter.pc = "waiting"
  /\ waiter.future # 0
  /\ waiter' = [waiter EXCEPT !.pc = "returned", !.result = waiter.future]
  /\ WaitForEventFinally

\* a variant whose timeout path leaves the handler registered
WaitForEventTimeout_leak ==
  /\ waiter.pc = "waiting"
  /\ waiter.future = 0
  /\ waiter' = [waiter EXCEPT !.pc = "timeout"]
  /\ UNCHANGED <<handlers, emission, calls, clientSide>>

\* asyncio.wait_for gives up on a future without a result: TimeoutError
WaitForEventTimeout ==
  /\ waiter.pc = "waiting"
  /\ waiter.future = 0
  /\ waiter' = [waiter EXCEPT !.pc = "timeout"]
  /\ WaitForEventFinally

(***************************************************************************)
(* The state after construction: RealtimeClient(), the global              *)
(* error_handler = RealtimeErrorHandler(), nothing connected.              *)
(* ConversationManager.__init__ has called reset() once.                   *)
(***************************************************************************)
InitClient ==
  /\ websocket = 0
  /\ session_created = FALSE
  /\ conversation = reset
  /\ audio_buffer = << >>
  /\ tools = << >>
  /\ nconns = 0
  /\ open = {}
  /\ loop = [c \in Conns |-> "none"]
  /\ call = [c \in Conns |-> [call_id |-> None, frame |-> None, outcome |-> None]]
  /\ nframes = 0
  /\ sent = << >>
  /\ emitted = << >>
  /\ received = << >>
  /\ invoked = << >>
  /\ conn_pc = "idle"
  /\ conn_caller = "app"
  /\ conn_result = FALSE
  /\ disc_pc = "idle"
  /\ resets = 1
  /\ disconnects = 0
  /\ last_op = [op |-> "init", result |-> "ok"]
  /\ cr_pc = "idle"
  /\ cr_result = FALSE
  /\ handlers = << >>
  /\ emission = [pc |-> "idle", index |-> 0, payload |-> 0, stable |-> {}]
  /\ calls = << >>
  /\ waiter = [pc |-> "idle", future |-> 0, result |-> 0, since |-> 0,
               before |-> << >>]
  /\ history = NoHistory
  /\ text_call = [pc |-> "idle", text |-> << >>]
  /\ session_config = DefaultSessionConfig
  /\ commit_call = [pc |-> "idle", found |-> << >>]
  /\ metrics = InitMetrics
  /\ observed = << >>

InitRetryCall ==
  /\ error_counts = [e \in ErrorTypes |-> 0]
  /\ retry_pc = "idle"
  /\ retry_op = "operation"
  /\ attempt = 0
  /\ last_exception = None
  /\ retry_result = None
  /\ invocations = << >>
  /\ sleeps = << >>
  /\ counts_before = [e \in ErrorTypes |-> 0]
  /\ ncalls = 0

Init ==
  /\ InitClient
  /\ InitRetryCall
  /\ max_retries = DefaultMaxRetries
  /\ retry_delay = DefaultRetryDelay

\* a RealtimeErrorHandler(max_retries, retry_delay) of the caller's choice
InitRetry ==
  /\ InitClient
  /\ InitRetryCall
  /\ max_retries \in 0..MaxRetriesBound
  /\ retry_delay \in RetryDelays

(***************************************************************************)
(* The frames of the remote service.  It greets every transport with       *)
(* session.created before it sends anything else on it.                    *)
(***************************************************************************)
Greeted(c) ==
  \E i \in 1..Len(received) :
    received[i].conn = c /\ received[i].frame.type = "session.created"

MessageItem(id, text) ==
  [id |-> id, type |-> "message", name |-> None, call_id |-> None,
   status |-> "in_progress",
   content |-> IF text = << >> THEN << >> ELSE <<[type |-> "text", text |-> text]>>]

\* the call id the service gives the function call of item id
CallIdOf(id) == IF id = "item_A" THEN "call_A" ELSE "call_B"

FunctionCallItem(id, name) ==
  [id |-> id, type |-> "function_call", name |-> name, call_id |-> CallIdOf(id),
   status |-> "in_progress", content |-> << >>]

\* the item the stream specification follows, and another one whose frames
\* are interleaved with it
Subject == "item_A"
Other == "item_B"

(***************************************************************************)
(* Specifications.                                                         *)
(***************************************************************************)
\* the frames delivered after the greetings
ConversationFrames == nframes - Cardinality({c \in Conns : Greeted(c)})

\* transport c has been greeted and the stream has frames left
StreamOpen(c) ==
  c \in open /\ Greeted(c) /\ ConversationFrames < MaxStreamFrames

\* the stream of one connection: the item the specification follows with
\* its deltas and its completion, and another item, created once, whose
\* deltas are interleaved
NextStream ==
  \/ nconns = 0 /\ ConnectCall
  \/ ConnectOpened
  \/ ConnectSessionReady
  \/ \E c \in Conns : ~Greeted(c) /\ HandleSessionCreated(c)
  \/ \E c \in Conns : StreamOpen(c) /\
       HandleItemCreated(c, MessageItem(Subject, <<"Hello">>))
  \/ \E c \in Conns : StreamOpen(c) /\ ~HasItem(conversation, Other) /\
       HandleItemCreated(c, MessageItem(Other, << >>))
  \/ \E c \in Conns, d \in TextDeltas : StreamOpen(c) /\
       HandleTextDelta(c, Subject, d)
  \/ \E c \in Conns : StreamOpen(c) /\ HandleTextDelta(c, Other, <<"Hi">>)
  \/ \E c \in Conns, d \in TranscriptDeltas : StreamOpen(c) /\
       HandleTranscriptDelta(c, Subject, d)
  \/ \E c \in Conns, d \in AudioDeltas : StreamOpen(c) /\
       HandleAudioDelta(c, Subject, d)
  \/ \E c \in Conns : StreamOpen(c) /\
       HandleOutputItemDone(c, Subject, "return")

SpecStream == Init /\ [][NextStream]_vars

\* connect() has returned on the greeted transport c and the function-call
\* stream has frames left
ToolStreamOpen(c) ==
  /\ c \in open
  /\ Greeted(c)
  /\ conn_pc = "idle"
  /\ ConversationFrames < MaxToolFrames

\* one function call of the remote service: its item, created once, its
\* argument deltas, its completion; the application registers a tool once,
\* with a handler of any kind, before the conversation starts, and the
\* remote side may close
NextTools ==
  \/ \E n \in ToolNames, h \in HandlerKinds :
       /\ n \notin DOMAIN tools
       /\ conn_pc = "idle"
       /\ ConversationFrames = 0
       /\ AddTool(n, 1, h)
  \/ nconns = 0 /\ ConnectCall
  \/ ConnectOpened
  \/ ConnectSessionReady
  \/ \E c \in Conns : ~Greeted(c) /\ HandleSessionCreated(c)
  \/ \E c \in Conns, n \in FunctionNames :
       /\ ToolStreamOpen(c)
       /\ ~HasItem(conversation, Subject)
       /\ HandleItemCreated(c, FunctionCallItem(Subject, n))
  \/ \E c \in Conns, d \in ArgDeltas : ToolStreamOpen(c) /\
       HandleFunctionCallDelta(c, Subject, d)
  \/ \E c \in Conns, out \in HandlerOutcomes : ToolStreamOpen(c) /\
       HandleOutputItemDone(c, Subject, out)
  \/ \E c \in Conns, out \in HandlerOutcomes : ToolHandlerFinish(c, out)
  \/ \E c \in Conns : ServerClose(c)
  \/ \E c \in Conns : LoopExit(c)

SpecTools == Init /\ [][NextTools]_vars

\* an awaited tool handler terminates
FairSpecTools ==
  SpecTools /\ WF_vars(\E c \in Conns, out \in HandlerOutcomes : ToolHandlerFinish(c, out))

\* connect() has returned on the greeted transport c and the stream with
\* bad frames has frames left
BadStreamOpen(c) ==
  /\ c \in open
  /\ Greeted(c)
  /\ conn_pc = "idle"
  /\ ConversationFrames < MaxBadFrames

\* a stream with frames the loop cannot process: a function call and a
\* message, their deltas with strings and with numbers, unparsable frames
\* and frames of a type without a branch
NextFrames ==
  \/ "get_time" \notin DOMAIN tools /\ AddTool("get_time", 1, "sync")
  \/ nconns = 0 /\ ConnectCall
  \/ ConnectOpened
  \/ ConnectSessionReady
  \/ \E c \in Conns : ~Greeted(c) /\ HandleSessionCreated(c)
  \/ \E c \in Conns :
       /\ BadStreamOpen(c)
       /\ ~HasItem(conversation, Subject)
       /\ HandleItemCreated(c, FunctionCallItem(Subject, "get_time"))
  \/ \E c \in Conns :
       /\ BadStreamOpen(c)
       /\ ~HasItem(conversation, Other)
       /\ HandleItemCreated(c, MessageItem(Other, << >>))
  \/ \E c \in Conns : BadStreamOpen(c) /\
       HandleFunctionCallDelta(c, Subject, <<"{", "}">>)
  \/ \E c \in Conns : BadStreamOpen(c) /\
       HandleFunctionCallDeltaNotAString(c, Subject)
  \/ \E c \in Conns : BadStreamOpen(c) /\ HandleTextDelta(c, Other, <<"Hi">>)
  \/ \E c \in Conns : BadStreamOpen(c) /\ HandleTextDeltaNotAString(c, Other)
  \/ \E c \in Conns : BadStreamOpen(c) /\ HandleUnparsable(c)
  \/ \E c \in Conns : BadStreamOpen(c) /\ HandleUnknownType(c)
  \/ \E c \in Conns : BadStreamOpen(c) /\
       HandleOutputItemDone(c, Subject, "return")
  \/ \E c \in Conns : ServerClose(c)
  \/ \E c \in Conns : LoopExit(c)

SpecFrames == Init /\ [][NextFrames]_vars

\* a client with an asynchronous tool that disconnects, and connects again,
\* while the remote service has a function call in flight; the remote side
\* does not close
NextReset ==
  \/ nconns = 0 /\ conn_pc = "idle" /\ "get_time" \notin DOMAIN tools /\
       AddTool("get_time", 1, "async")
  \/ nconns < MaxConns /\ disc_pc = "idle" /\ ConnectCall
  \/ ConnectOpened
  \/ ConnectSessionReady
  \/ \E c \in Conns : ~Greeted(c) /\ HandleSessionCreated(c)
  \/ \E c \in Conns :
       /\ ToolStreamOpen(c)
       /\ ~HasItem(conversation, Subject)
       /\ HandleItemCreated(c, FunctionCallItem(Subject, "get_time"))
  \/ \E c \in Conns : ToolStreamOpen(c) /\
       HandleOutputItemDone(c, Subject, "return")
  \/ \E c \in Conns, out \in HandlerOutcomes : ToolHandlerFinish(c, out)
  \/ \E c \in Conns : LoopExit(c)
  \/ disconnects = 0 /\ conn_pc = "idle" /\ DisconnectCall
  \/ DisconnectFinish

SpecReset == Init /\ [][NextReset]_vars

\* an application that reads the history, and empties the list it got,
\* while the stream of one connection goes on
NextHistory ==
  \/ nconns = 0 /\ ConnectCall
  \/ ConnectOpened
  \/ ConnectSessionReady
  \/ \E c \in Conns : ~Greeted(c) /\ HandleSessionCreated(c)
  \/ \E c \in Conns : StreamOpen(c) /\
       HandleItemCreated(c, MessageItem(Subject, <<"Hello">>))
  \/ \E c \in Conns : StreamOpen(c) /\ ~HasItem(conversation, Other) /\
       HandleItemCreated(c, MessageItem(Other, << >>))
  \/ \E c \in Conns : StreamOpen(c) /\ HandleTextDelta(c, Subject, <<"Hi">>)
  \/ \E c \in Conns : StreamOpen(c) /\
       HandleOutputItemDone(c, Subject, "return")
  \/ \E limit \in HistoryLimits : GetHistory(limit)
  \/ ClearReturnedList

SpecHistory == Init /\ [][NextHistory]_vars

\* an application that registers a tool at any time, pushes the session
\* again, and connects again when its transport is gone or closed
NextPush ==
  \/ \E v \in ToolVersions :
       conn_pc = "idle" /\ Len(sent) < MaxConfigSends /\ AddTool("get_time", v, "sync")
  \/ nconns < MaxConns /\ ~CanSend /\ disc_pc = "idle" /\ ConnectCall
  \/ ConnectOpened
  \/ ConnectSessionReady
  \/ \E c \in Conns : ~Greeted(c) /\ HandleSessionCreated(c)
  \/ Len(sent) < MaxConfigSends /\ conn_pc = "idle" /\ UpdateSession(<< >>)
  \/ \E c \in Conns : c = websocket /\ ServerClose(c)
  \/ disconnects = 0 /\ conn_pc = "idle" /\ DisconnectCall
  \/ DisconnectFinish

SpecPush == Init /\ [][NextPush]_vars

\* one function call, completed once for each time its item is created,
\* whose result is sent while the remote side closes, the client
\* disconnects and the application connects again
NextResult ==
  \/ nconns = 0 /\ conn_pc = "idle" /\ "get_time" \notin DOMAIN tools /\
       AddTool("get_time", 1, "async")
  \/ /\ nconns < MaxConns /\ disc_pc = "idle" /\ "get_time" \in DOMAIN tools
     /\ nconns > 0 => \E c \in Conns : loop[c] \in {"sending_result", "sending_error"}
     /\ ConnectCall
  \/ ConnectOpened
  \/ ConnectSessionReady
  \/ \E c \in Conns : ~Greeted(c) /\ HandleSessionCreated(c)
  \/ \E c \in Conns :
       /\ ToolStreamOpen(c)
       /\ ~HasItem(conversation, Subject)
       /\ HandleItemCreated(c, FunctionCallItem(Subject, "get_time"))
  \/ \E c \in Conns :
       /\ ToolStreamOpen(c)
       /\ HasItem(conversation, Subject)
       /\ get_item(conversation, Subject).status # "completed"
       /\ HandleOutputItemDone(c, Subject, "return")
  \/ \E c \in Conns, out \in HandlerOutcomes : ResultItem(c, out)
  \/ \E c \in Conns : ResultResponse(c)
  \/ \E c \in Conns : ServerClose(c)
  \/ \E c \in Conns : LoopExit(c)
  \/ disconnects = 0 /\ conn_pc = "idle" /\ DisconnectCall
  \/ DisconnectFinish

SpecResult == Init /\ [][NextResult]_vars

\* a caller that streams audio chunks while another one commits
NextRace ==
  \/ nconns = 0 /\ ConnectCall
  \/ ConnectOpened
  \/ ConnectSessionReady
  \/ \E c \in Conns : ~Greeted(c) /\ HandleSessionCreated(c)
  \/ \E chunk \in StreamedChunks :
       Len(sent) < MaxRaceSends /\ conn_pc = "idle" /\ SendAudioData(chunk)
  \/ Len(sent) < MaxRaceSends /\ conn_pc = "idle" /\ CommitAudioStart
  \/ CommitAudioResume
  \/ \E c \in Conns : ServerClose(c)

SpecRace == Init /\ [][NextRace]_vars

\* response times are recorded until the window has overflowed; one of
\* them, at most, is a slow one; the metrics may be reset
NextWindow ==
  \/ \E t \in ResponseTimes :
       /\ Len(observed) < MaxSamples
       /\ t = 2 => \A i \in 1..Len(observed) : observed[i] # 2
       /\ RecordResponseTime(t)
  \/ observed # << >> /\ ResetMetrics

SpecWindow == Init /\ [][NextWindow]_vars

\* every kind of record, a few of them between two resets
NextMetrics ==
  \/ \E success \in BOOLEAN :
       Recorded(metrics) < MaxRecords /\ RecordConnectionAttempt(success)
  \/ \E direction \in Directions :
       Recorded(metrics) < MaxRecords /\ RecordMessage(direction)
  \/ Recorded(metrics) < MaxRecords /\ RecordAudioChunk
  \/ \E t \in ResponseTimes :
       Recorded(metrics) < MaxRecords /\ RecordResponseTime(t)
  \/ \E d \in SessionDurations :
       Recorded(metrics) < MaxRecords /\ RecordSessionDuration(d)
  \/ \E e \in RecordedErrors :
       Recorded(metrics) < MaxRecords /\ RecordError(e)
  \/ ResetMetrics

SpecMetrics == Init /\ [][NextMetrics]_vars

\* an application that changes the session configuration and registers a
\* tool, before and after it connects; the remote side may close, and the
\* client may disconnect once
NextConfig ==
  \/ conn_pc = "idle" /\ "get_time" \notin DOMAIN tools /\ Len(sent) < MaxConfigSends
       /\ AddTool("get_time", 1, "sync")
  \/ nconns = 0 /\ ConnectCall
  \/ ConnectOpened
  \/ ConnectSessionReady
  \/ \E c \in Conns : ~Greeted(c) /\ HandleSessionCreated(c)
  \/ \E kwargs \in Patches :
       Len(sent) < MaxConfigSends /\ conn_pc = "idle" /\ UpdateSession(kwargs)
  \/ \E c \in Conns : ServerClose(c)
  \/ disconnects = 0 /\ conn_pc = "idle" /\ DisconnectCall
  \/ DisconnectFinish

SpecConfig == Init /\ [][NextConfig]_vars

\* ids of created items: a good one, an empty one and a missing one
CreatedIds == {Subject, "", None}

\* a stream with items that have no id and with deltas for an item that was
\* never created (Other)
NextIds ==
  \/ nconns = 0 /\ ConnectCall
  \/ ConnectOpened
  \/ ConnectSessionReady
  \/ \E c \in Conns : ~Greeted(c) /\ HandleSessionCreated(c)
  \/ \E c \in Conns, id \in CreatedIds : StreamOpen(c) /\
       HandleItemCreated(c, MessageItem(id, <<"Hello">>))
  \/ \E c \in Conns, id \in ItemIds : StreamOpen(c) /\
       HandleTextDelta(c, id, <<"Hi">>)
  \/ \E c \in Conns : StreamOpen(c) /\ HandleTranscriptDelta(c, Other, <<"tr">>)
  \/ \E c \in Conns : StreamOpen(c) /\ HandleAudioDelta(c, Other, <<"A", "Q">>)
  \/ \E c \in Conns : StreamOpen(c) /\ HandleFunctionCallDelta(c, Other, <<"{">>)

SpecIds == Init /\ [][NextIds]_vars

\* a caller that streams audio chunks and commits them; the remote side may
\* close, and the client may disconnect once
NextAudio ==
  \/ nconns = 0 /\ ConnectCall
  \/ ConnectOpened
  \/ ConnectSessionReady
  \/ \E c \in Conns : ~Greeted(c) /\ HandleSessionCreated(c)
  \/ \E chunk \in StreamedChunks :
       Len(sent) < MaxAudioSends /\ conn_pc = "idle" /\ SendAudioData(chunk)
  \/ Len(sent) < MaxAudioSends /\ conn_pc = "idle" /\ CommitAudio
  \/ \E c \in Conns : ServerClose(c)
  \/ disconnects = 0 /\ conn_pc = "idle" /\ DisconnectCall
  \/ DisconnectFinish

SpecAudio == Init /\ [][NextAudio]_vars

\* an application that sends text messages while another caller sends
\* audio; the remote side may close, and the client may disconnect once
NextText ==
  \/ nconns = 0 /\ ConnectCall
  \/ ConnectOpened
  \/ ConnectSessionReady
  \/ \E c \in Conns : ~Greeted(c) /\ HandleSessionCreated(c)
  \/ \E text \in Texts : Len(sent) < MaxTextSends /\ SendTextCall(text)
  \/ SendTextFinish
  \/ Len(sent) < MaxTextSends /\ SendAudioData(<<1, 2>>)
  \/ \E c \in Conns : ServerClose(c)
  \/ disconnects = 0 /\ DisconnectCall
  \/ DisconnectFinish

SpecText == Init /\ [][NextText]_vars

\* the tool registry of a client that connects and disconnects once
NextRegistry ==
  \/ \E v \in ToolVersions, h \in HandlerKinds : AddTool("get_time", v, h)
  \/ \E n \in GivenNames : AddTool(n, 1, "sync")
  \/ nconns < MaxLifeConns /\ ConnectCall
  \/ ConnectOpened
  \/ ConnectSessionReady
  \/ \E c \in Conns : ~Greeted(c) /\ HandleSessionCreated(c)
  \/ \E c \in Conns : ServerClose(c)
  \/ disconnects = 0 /\ DisconnectCall
  \/ DisconnectFinish

SpecRegistry == Init /\ [][NextRegistry]_vars

\* a client that connects, takes an item, sends audio between its connect
\* calls and disconnects, in any order; the remote side may close the
\* transport the client holds
NextLifecycle ==
  \/ nconns < MaxLifeConns /\ ConnectCall
  \/ ConnectOpened
  \/ ConnectSessionReady
  \/ ConnectTimeout
  \/ \E c \in Conns : ~Greeted(c) /\ HandleSessionCreated(c)
  \/ \E c \in Conns :
       /\ Greeted(c)
       /\ ConversationFrames = 0
       /\ HandleItemCreated(c, MessageItem(Subject, <<"Hello">>))
  \/ \E chunk \in AudioChunks :
       Len(sent) < MaxLifeSends /\ conn_pc = "idle" /\ SendAudioData(chunk)
  \/ Len(sent) < MaxLifeSends /\ conn_pc = "idle" /\ CommitAudio
  \/ \E c \in Conns : c = websocket /\ conn_pc = "idle" /\ ServerClose(c)
  \/ DisconnectCall
  \/ DisconnectFinish

SpecLifecycle == Init /\ [][NextLifecycle]_vars

\* connect_realtime: with_retry around connect, against a service that may
\* refuse the transport, stay silent, greet, or close; the application may
\* disconnect
NextConnect ==
  \/ ConnectRealtimeCall
  \/ RetryInvokeConnect
  \/ ConnectOpened
  \/ ConnectRefused
  \/ ConnectSessionReady
  \/ ConnectTimeout
  \/ \E c \in Conns : ~Greeted(c) /\ HandleSessionCreated(c)
  \/ \E c \in Conns : ServerClose(c)
  \/ ConnectRealtimeReturn
  \/ DisconnectCall
  \/ DisconnectFinish

SpecConnect == Init /\ [][NextConnect]_vars

\* the event manager: handlers come and go, events are emitted, one caller
\* waits for an event
NextEvents ==
  \/ \E h \in HandlerNames :
       /\ ~Registered_(handlers, h)
       /\ Len(calls) < MaxHandlerCalls
       /\ RegisterHandler(h)
  \/ \E h \in HandlerNames : Registered_(handlers, h) /\ RemoveHandler(h)
  \/ EmitEventCall
  \/ EmitEventResume
  \/ WaitForEventCall
  \/ WaitForEventReturn
  \/ WaitForEventTimeout

SpecEvents == Init /\ [][NextEvents]_vars

\* the sessions of a client: it connects, sends between its connect calls,
\* disconnects once and connects again; the remote side greets a transport
\* or not, early or late, and may close the transport the client holds
NextSession ==
  \/ nconns < MaxConns /\ ConnectCall
  \/ ConnectOpened
  \/ ConnectRefused
  \/ ConnectSessionReady
  \/ ConnectTimeout
  \/ \E c \in Conns : ~Greeted(c) /\ HandleSessionCreated(c)
  \/ \E c \in Conns : c = websocket /\ ServerClose(c)
  \/ \E c \in Conns : LoopExit(c)
  \/ /\ Len(sent) < MaxLifeSends
     /\ conn_pc = "idle"
     /\ SendEvent("response.create")
  \/ disconnects = 0 /\ DisconnectCall
  \/ DisconnectFinish

SpecSession == Init /\ [][NextSession]_vars

\* with_retry on an operation of the caller's
NextRetry ==
  \/ RetryCall
  \/ \E outcome \in OperationOutcomes : RetryInvoke(outcome)
  \/ RetryWake
  \/ RetryDone

SpecRetry == InitRetry /\ [][NextRetry]_vars

(***************************************************************************)
(* What the frames taken so far say about an item: the frames since the    *)
(* conversation.item.created that registered it (the last one of its id).  *)
(***************************************************************************)
IsCreated(r, id) ==
  r.frame.type = "conversation.item.created" /\ r.frame.item.id = id

IsDeltaFor(r, type, id) ==
  r.frame.type = type /\ r.frame.item_id = id /\ r.frame.delta # << >>

\* the position in `frames` of the frame that registered id (0: none)
Registered(frames, id) ==
  LET at == {i \in 1..Len(frames) : IsCreated(frames[i], id)} IN
  IF at = {} THEN 0 ELSE CHOOSE i \in at : \A j \in at : j <= i

\* the delta frames of `type` for id, in arrival order, since its registration
DeltasSince(frames, type, id) ==
  LET k == Registered(frames, id)
      Test(r) == IsDeltaFor(r, type, id)
  IN SelectSeq(SubSeq(frames, k + 1, Len(frames)), Test)

\* the bytes a base64 delta of the stream stands for (a delta that is not
\* well-formed base64 stands for no bytes)
ChunkOf(delta) ==
  IF delta = <<"A", "g", "M", "=">> THEN <<2, 3>> ELSE << >>

\* the accumulator the frames call for
ExpectedFormatted(frames, id) ==
  LET k == Registered(frames, id)
      texts == DeltasSince(frames, "response.text.delta", id)
      transcripts == DeltasSince(frames, "response.audio_transcript.delta", id)
      audios == DeltasSince(frames, "response.audio.delta", id)
  IN [text |-> InlineText(frames[k].frame.item.content)
                 \o Flatten([i \in 1..Len(texts) |-> texts[i].frame.delta]),
      transcript |-> Flatten([i \in 1..Len(transcripts) |->
                                transcripts[i].frame.delta]),
      audio |-> [i \in 1..Len(audios) |-> ChunkOf(audios[i].frame.delta)]]

\* the item of that id in the list get_conversation_history returns
InHistory(id) ==
  LET h == get_conversation_history(conversation, DefaultHistoryLimit)
      at == {i \in 1..Len(h) : h[i].id = id}
  IN IF at = {} THEN NoItem ELSE h[CHOOSE i \in at : \A j \in at : j <= i]

(***************************************************************************)
(* C1.  Once the receive loop has processed the delta frames of a          *)
(* registered item, the item get_conversation_history returns has          *)
(* formatted.text = its inline text followed by the text deltas in arrival *)
(* order, formatted.transcript = the transcript deltas in arrival order    *)
(* and formatted.audio = the decoded chunks in arrival order; the frames   *)
(* of other items interleaved in the stream do not change it.              *)
(***************************************************************************)
C1_DeltasAccumulateInOrder ==
  \A id \in ItemIds :
    Registered(received, id) # 0 =>
      LET item == InHistory(id)
          want == ExpectedFormatted(received, id)
      IN /\ item # NoItem
         /\ item.formatted.text = want.text
         /\ item.formatted.transcript = want.transcript
         /\ item.formatted.audio = want.audio

\* "Hello" inline, then "Hi" and " there!", with a frame of the other item
\* in the stream
C1_Witness ==
  /\ Registered(received, Subject) # 0
  /\ InHistory(Subject).formatted.text = <<"Hello", "Hi", " there!">>
  /\ \E i \in 1..Len(received) :
       /\ i > Registered(received, Subject)
       /\ received[i].frame.type = "response.text.delta"
       /\ received[i].frame.item_id = Other

(***************************************************************************)
(* What a handler that records every emission has observed.                *)
(***************************************************************************)
IsCompletedEmission(e) == e.ns = "" /\ e.type = "conversation.item.completed"

\* a conversation.updated emission for item id: with a delta, or (delta
\* None) the one of its registration
IsUpdatedFor(e, id) ==
  e.ns = "" /\ e.type = "conversation.updated" /\ e.data.item.id = id

\* frames whose processing was over before emission j: each ends with its
\* server.<type> emission
FramesBefore(j) ==
  Cardinality({i \in 1..(j - 1) : emitted[i].ns = "server"})

\* the delta emissions for id observed before emission j, since the
\* emission of its registration
DeltasObservedBefore(j, id) ==
  LET regs == {i \in 1..(j - 1) :
                 IsUpdatedFor(emitted[i], id) /\ emitted[i].data.delta = NoDelta}
      k == IF regs = {} THEN 0 ELSE CHOOSE i \in regs : \A r \in regs : r <= i
      Test(e) == IsUpdatedFor(e, id) /\ e.data.delta # NoDelta
      obs == SelectSeq(SubSeq(emitted, k + 1, j - 1), Test)
  IN [i \in 1..Len(obs) |-> obs[i].data.delta]

\* the deltas the frames carried for id since its registration, whatever
\* their kind, in arrival order, as conversation.updated reports them
DeltaKind(type) ==
  CASE type = "response.text.delta" -> "text"
    [] type = "response.audio_transcript.delta" -> "transcript"
    [] type = "response.audio.delta" -> "audio"
    [] OTHER -> None

DeltasArrived(frames, id) ==
  LET k == Registered(frames, id)
      Test(r) == DeltaKind(r.frame.type) # None /\ r.frame.item_id = id
                   /\ r.frame.delta # << >>
      ds == SelectSeq(SubSeq(frames, k + 1, Len(frames)), Test)
  IN [i \in 1..Len(ds) |->
        Delta(DeltaKind(ds[i].frame.type),
              IF ds[i].frame.type = "response.audio.delta"
              THEN ChunkOf(ds[i].frame.delta) ELSE ds[i].frame.delta)]

(***************************************************************************)
(* C2.  A recording handler observes conversation.item.completed of an     *)
(* item only after the conversation.updated emission of every delta frame  *)
(* that arrived before the item's response.output_item.done frame, and the *)
(* item it is given then already holds all of those deltas.                *)
(***************************************************************************)
C2_CompletedAfterEveryDelta ==
  \A j \in 1..Len(emitted) :
    IsCompletedEmission(emitted[j]) =>
      LET item == emitted[j].data.item
          m == FramesBefore(j)
          before == SubSeq(received, 1, m)
          want == ExpectedFormatted(before, item.id)
      IN /\ received[m + 1].frame.type = "response.output_item.done"
         /\ received[m + 1].frame.item.id = item.id
         /\ DeltasObservedBefore(j, item.id) = DeltasArrived(before, item.id)
         /\ item.status = "completed"
         /\ item.formatted.text = want.text
         /\ item.formatted.transcript = want.transcript
         /\ item.formatted.audio = want.audio

\* completed was observed for an item that had received a text delta and an
\* audio delta before
C2_Witness ==
  \E j \in 1..Len(emitted) :
    /\ IsCompletedEmission(emitted[j])
    /\ emitted[j].data.item.id = Subject
    /\ emitted[j].data.item.formatted.text = <<"Hello", "Hi">>
    /\ emitted[j].data.item.formatted.audio = << <<2, 3>> >>
    /\ Len(DeltasObservedBefore(j, Subject)) >= 2

(***************************************************************************)
(* One with_retry call, seen from outside.                                 *)
(***************************************************************************)
Failed(i) == invocations[i].kind = "raise"

\* the errors this call has added to the statistics under type e
ErrorsAdded(e) == error_counts[e] - counts_before[e]

\* the failures among the first n invocations that raised type e
FailuresOf(e, n) ==
  Cardinality({i \in 1..n : Failed(i) /\ invocations[i].value = e})

RetryFinished == retry_op = "operation" /\ retry_pc \in {"returned", "raised"}

(***************************************************************************)
(* C7.  with_retry (max_retries >= 2, as by default) on an operation that  *)
(* fails on its first two invocations and succeeds on the third invokes it *)
(* exactly three times, returns the value of the third invocation, adds    *)
(* exactly 2 to the error statistics, under the types of the two failures, *)
(* and waits retry_delay before the second invocation and 2 * retry_delay  *)
(* before the third.                                                       *)
(***************************************************************************)
C7_FailTwiceThenSucceed ==
  ( /\ RetryFinished
    /\ max_retries >= 2
    /\ Len(invocations) >= 2
    /\ Failed(1) /\ Failed(2)
    /\ Len(invocations) >= 3 => ~Failed(3) )
  => /\ Len(invocations) = 3
     /\ retry_pc = "returned"
     /\ retry_result = invocations[3].value
     /\ \A e \in ErrorTypes : ErrorsAdded(e) = FailuresOf(e, 2)
     /\ sleeps = <<retry_delay, 2 * retry_delay>>

\* a second call on the same handler: two failures of different types,
\* then a value
C7_Witness ==
  /\ RetryFinished
  /\ ncalls = 2
  /\ \E e \in ErrorTypes : counts_before[e] > 0
  /\ Len(invocations) = 3
  /\ Failed(1) /\ Failed(2) /\ ~Failed(3)
  /\ invocations[1].value # invocations[2].value
  /\ retry_delay = 2

(***************************************************************************)
(* C8.  with_retry on an operation that fails on every invocation invokes  *)
(* it max_retries + 1 times and no more, then raises the failure of the    *)
(* last invocation; it has added max_retries + 1 to the error statistics   *)
(* and has waited retry_delay * 2^k before retry k + 1, for                *)
(* k = 0..max_retries - 1, with no wait after the final failure.           *)
(***************************************************************************)
C8_AlwaysFailingExhaustsRetries ==
  ( /\ retry_op = "operation"
    /\ retry_pc # "idle"
    /\ \A i \in 1..Len(invocations) : Failed(i) )
  => /\ Len(invocations) <= max_retries + 1
     /\ retry_pc = "raised" <=> Len(invocations) = max_retries + 1
     /\ retry_pc # "returned"
     /\ \A e \in ErrorTypes : ErrorsAdded(e) = FailuresOf(e, Len(invocations))
     /\ retry_pc = "raised" =>
          /\ last_exception = invocations[Len(invocations)].value
          /\ sleeps = [k \in 1..max_retries |-> retry_delay * Pow2(k - 1)]
     /\ retry_pc = "sleeping" => Len(sleeps) = Len(invocations)
     /\ retry_pc = "invoke" => Len(sleeps) = Len(invocations)

\* max_retries = 3: four failures, the last of another type than the first
C8_Witness ==
  /\ retry_op = "operation"
  /\ retry_pc = "raised"
  /\ max_retries = DefaultMaxRetries
  /\ Len(invocations) = 4
  /\ \A i \in 1..4 : Failed(i)
  /\ invocations[1].value # invocations[4].value
  /\ last_exception = invocations[4].value

(***************************************************************************)
(* Function calls, seen from outside.                                      *)
(***************************************************************************)
\* the frame the step takes
TakenFrame == received'[Len(received')]

\* the step in which the loop of transport c takes response.output_item.done
\* for a function-call item the conversation knows
CompletesCall(c) ==
  /\ Len(received') = Len(received) + 1
  /\ TakenFrame.conn = c
  /\ TakenFrame.frame.type = "response.output_item.done"
  /\ HasItem(conversation, TakenFrame.frame.item.id)
  /\ get_item(conversation, TakenFrame.frame.item.id).type = "function_call"

\* the item that step completes
CompletedCall == get_item(conversation', TakenFrame.frame.item.id)

IsFunctionCallOutput(e, call_id) ==
  /\ e.type = "conversation.item.create"
  /\ e.data.item.type = "function_call_output"
  /\ e.data.item.call_id = call_id

\* the step has written exactly one function_call_output for call_id, with
\* or without an error field, and then exactly one response.create
Answers(call_id, error) ==
  /\ Len(sent') = Len(sent) + 2
  /\ SubSeq(sent', 1, Len(sent)) = sent
  /\ IsFunctionCallOutput(sent'[Len(sent) + 1], call_id)
  /\ sent'[Len(sent) + 1].data.item.output.error = error
  /\ sent'[Len(sent) + 2].type = "response.create"

\* _handle_server_event has returned to the loop of transport c: its last
\* statement has emitted server.<type>, and the loop takes the next frame
LoopGoesOn(c) ==
  /\ loop'[c] = "running"
  /\ emitted' # << >>
  /\ emitted'[Len(emitted')].ns = "server"
  /\ emitted'[Len(emitted')].type = "response.output_item.done"

\* the last two events written answer call_id
Answered(call_id, error) ==
  /\ Len(sent) >= 2
  /\ IsFunctionCallOutput(sent[Len(sent) - 1], call_id)
  /\ sent[Len(sent) - 1].data.item.output.error = error
  /\ sent[Len(sent)].type = "response.create"

\* the last frame taken is response.output_item.done for a function call
LastFrameCompletedCall ==
  /\ received # << >>
  /\ received[Len(received)].frame.type = "response.output_item.done"
  /\ HasItem(conversation, Subject)
  /\ get_item(conversation, Subject).type = "function_call"
  /\ get_item(conversation, Subject).status = "completed"

(***************************************************************************)
(* C4.  When a function-call item that names a registered tool completes   *)
(* and its accumulated argument string is not valid JSON, the handler is   *)
(* not invoked and no exception reaches the receive loop; on an open       *)
(* transport exactly one function_call_output with the item's call_id and  *)
(* an error field is sent, then exactly one response.create.               *)
(***************************************************************************)
C4_UnparsableArgumentsAnswered ==
  [][\A c \in Conns :
       ( /\ CompletesCall(c)
         /\ CompletedCall.name \in DOMAIN tools
         /\ ~json_loads(ArgsStr(CompletedCall)).ok )
       => /\ invoked' = invoked
          /\ LoopGoesOn(c)
          /\ CanSend => Answers(CompletedCall.call_id, TRUE)
          /\ ~CanSend => sent' = sent]_vars

\* get_time has a handler; the arguments arrived as "{" and "{b"
C4_Witness ==
  /\ LastFrameCompletedCall
  /\ get_item(conversation, Subject).name \in DOMAIN tools
  /\ tools[get_item(conversation, Subject).name].handler # None
  /\ ArgsStr(get_item(conversation, Subject)) = <<"{", "{", "b">>
  /\ invoked = << >>
  /\ Answered(CallIdOf(Subject), TRUE)

(***************************************************************************)
(* C5.  Every function-call item that completes is answered, provided the  *)
(* handler terminates and the transport is open: whatever the outcome      *)
(* (a value, an exception, a value json.dumps rejects, unparsable          *)
(* arguments, no handler, an unknown tool), the step that ends the call    *)
(* sends a function_call_output with the item's call_id, with an error     *)
(* field unless the handler returned a value, and then response.create;    *)
(* the receive loop goes on; and a call whose handler is awaited reaches   *)
(* that step.                                                              *)
(***************************************************************************)
C5_EveryCallAnswered ==
  /\ [][\A c \in Conns :
          ( \/ CompletesCall(c) /\ loop'[c] # "handler"
            \/ loop[c] = "handler" /\ loop'[c] # "handler" )
          => /\ LoopGoesOn(c)
             /\ call'[c].outcome # None
             /\ CompletesCall(c) => call'[c].call_id = CompletedCall.call_id
             /\ CanSend => Answers(call'[c].call_id, call'[c].outcome # "return")]_vars
  /\ \A c \in Conns :
       (loop[c] = "handler")
         ~> ( /\ loop[c] = "running"
              /\ call[c].outcome # None
              /\ CanSend => Answered(call[c].call_id, call[c].outcome # "return") )

\* an awaited handler has raised and the call has been answered with an error
C5_Witness ==
  /\ LastFrameCompletedCall
  /\ CanSend
  /\ loop[websocket] = "running"
  /\ call[websocket].outcome = "raise"
  /\ Len(invoked) = 1
  /\ tools[invoked[1].name].handler = "async"
  /\ Answered(CallIdOf(Subject), TRUE)

(***************************************************************************)
(* C6.  When a function-call item completes and its function name is not   *)
(* in the tool registry, no handler is invoked and, on an open transport,  *)
(* a function_call_output with the item's call_id and an error field is    *)
(* sent, followed by response.create.                                      *)
(***************************************************************************)
C6_UnknownToolAnswered ==
  [][\A c \in Conns :
       (CompletesCall(c) /\ CompletedCall.name \notin DOMAIN tools)
       => /\ invoked' = invoked
          /\ LoopGoesOn(c)
          /\ CanSend => Answers(CompletedCall.call_id, TRUE)]_vars

\* a tool is registered, the call names another one
C6_Witness ==
  /\ LastFrameCompletedCall
  /\ tools # << >>
  /\ get_item(conversation, Subject).name = "missing_tool"
  /\ call[websocket].outcome = "unknown"
  /\ invoked = << >>
  /\ Answered(CallIdOf(Subject), TRUE)

(***************************************************************************)
(* C3.  add_tool with a name that is already registered fails with the     *)
(* duplicate-tool error, writes no event and leaves the registry, and so   *)
(* the definition and the handler of the first registration, unchanged,    *)
(* whether the client holds a transport or not.                            *)
(***************************************************************************)
C3_DuplicateToolRejected ==
  [][( /\ last_op' # last_op
       /\ last_op'.op = "add_tool"
       /\ last_op'.name \in DOMAIN tools )
     => /\ last_op'.result = "ValueError: already exists"
        /\ tools' = tools
        /\ sent' = sent
        /\ emitted' = emitted]_vars

\* on an open transport, a second registration with another definition and
\* another handler has failed
C3_Witness ==
  /\ last_op.op = "add_tool"
  /\ last_op.result = "ValueError: already exists"
  /\ CanSend
  /\ session_created
  /\ tools[last_op.name].definition.version # last_op.version
  /\ tools[last_op.name].handler # last_op.handler

(***************************************************************************)
(* C9.  A failure during connect is retried: when connect_realtime has     *)
(* returned failure, the retries are exhausted, that is, connect has been  *)
(* attempted max_retries + 1 times.                                        *)
(***************************************************************************)
C9_ConnectRetriedUntilExhausted ==
  ( /\ retry_op = "connect"
    /\ ncalls > 0
    /\ cr_pc = "idle"
    /\ ~cr_result )
  => Len(invocations) = max_retries + 1

(***************************************************************************)
(* C10.  disconnect() is idempotent: in any state it returns without an    *)
(* exception, and when it returns the transport is absent, the             *)
(* session-created flag is false, the conversation holds no items, no      *)
(* lookup entries and no pending audio, and the audio buffer is empty;     *)
(* the conversation is reset exactly once per disconnect() call.           *)
(***************************************************************************)
C10_DisconnectIdempotent ==
  /\ [][disconnects' # disconnects
        => /\ disconnects' = disconnects + 1
           /\ last_op' = [op |-> "disconnect", result |-> "ok"]
           /\ websocket' = 0
           /\ session_created' = FALSE
           /\ conversation'.items = << >>
           /\ conversation'.item_lookup = << >>
           /\ ~conversation'.pending_audio.present
           /\ audio_buffer' = << >>
           /\ resets' = resets + 1]_vars
  /\ [][resets' # resets => disconnects' # disconnects]_vars

\* two calls have returned: the first on a connected client with an item
\* and buffered audio, the second on the disconnected client
C10_Witness ==
  /\ disconnects = 2
  /\ resets = 3
  /\ disc_pc = "idle"
  /\ \E i \in 1..Len(received) :
       received[i].frame.type = "conversation.item.created"
  /\ \E i \in 1..Len(sent) : sent[i].type = "input_audio_buffer.append"
  /\ \A i \in 1..Len(sent) : sent[i].type # "input_audio_buffer.commit"
  /\ websocket = 0
  /\ conversation = reset

(***************************************************************************)
(* The event manager, seen from outside.                                   *)
(***************************************************************************)
\* the invocations of handler h with payload p
CallsOf(h, p) ==
  {i \in 1..Len(calls) : calls[i] = [handler |-> h, payload |-> p]}

\* the invocations of handler h
AllCallsOf(h) == {i \in 1..Len(calls) : calls[i].handler = h}

(***************************************************************************)
(* C14.  emit_event invokes every handler registered for the type exactly  *)
(* once: when an emission is over, every handler that was registered from  *)
(* its start to its end has been invoked exactly once with its payload,    *)
(* also when other handlers were registered or removed while the emission  *)
(* was suspended in a coroutine handler.                                   *)
(***************************************************************************)
C14_EveryHandlerExactlyOnce ==
  (emission.pc = "idle" /\ emission.payload > 0)
  => \A h \in emission.stable : Cardinality(CallsOf(h, emission.payload)) = 1

(***************************************************************************)
(* C15.  When wait_for_event finishes, with a payload or with a timeout,   *)
(* its temporary handler is no longer registered and the other handlers    *)
(* are registered as before, in their order.                               *)
(***************************************************************************)
C15_TemporaryHandlerRemoved ==
  [][(waiter.pc = "waiting" /\ waiter'.pc \in {"returned", "timeout"})
     => /\ ~Registered_(handlers', one_time_handler)
        /\ handlers' = SelectSeq(handlers, LAMBDA h : h # one_time_handler)]_vars

\* a timeout while an emission is suspended, two other handlers registered,
\* the temporary handler not the last of the list
C15_Witness ==
  /\ waiter.pc = "timeout"
  /\ emission.pc = "suspended"
  /\ Len(handlers) = 2
  /\ Len(waiter.before) < 2

(***************************************************************************)
(* C16.  wait_for_event is one-shot: its handler is removed as soon as it  *)
(* has fired, it is not invoked for a second event, and the call returns   *)
(* the payload of the first event its handler was invoked for.             *)
(***************************************************************************)
C16_OneShot ==
  /\ Cardinality(AllCallsOf(one_time_handler)) <= 1
  /\ (waiter.pc = "waiting" /\ waiter.future # 0)
       => ~Registered_(handlers, one_time_handler)
  /\ waiter.pc = "returned"
       => \E i \in AllCallsOf(one_time_handler) :
            /\ waiter.result = calls[i].payload
            /\ \A j \in AllCallsOf(one_time_handler) : i <= j

(***************************************************************************)
(* Sessions, seen from outside.                                            *)
(***************************************************************************)
\* the definitions of the tools of a registry
DefinitionsOf(registry) == {registry[n].definition : n \in DOMAIN registry}

\* the step has written exactly one event: session.update with exactly the
\* tools of the registry as it is after the step
PushesSession ==
  /\ Len(sent') = Len(sent) + 1
  /\ SubSeq(sent', 1, Len(sent)) = sent
  /\ sent'[Len(sent')].type = "session.update"
  /\ sent'[Len(sent')].data.tools = DefinitionsOf(tools')

\* add_tool has returned normally in this step
AddToolReturns ==
  /\ last_op' # last_op
  /\ last_op'.op = "add_tool"
  /\ last_op'.result = "ok"

\* connect() has returned True in this step
ConnectSucceeds == conn_pc = "waiting" /\ conn_pc' = "idle" /\ conn_result'

\* send_event has returned or raised in this step
SendEventEnds == last_op' # last_op /\ last_op'.op = "send_event"

\* the step has written one event of the given type under a generated id
\* and has then emitted client.<type> once, with that event
WritesAndEmits ==
  /\ Len(sent') = Len(sent) + 1
  /\ SubSeq(sent', 1, Len(sent)) = sent
  /\ sent'[Len(sent')].type = last_op'.type
  /\ sent'[Len(sent')].event_id = last_op'.event_id
  /\ \A i \in 1..Len(sent) : sent[i].event_id # last_op'.event_id
  /\ emitted' = Append(emitted, [ns |-> "client", type |-> last_op'.type,
                                 data |-> sent'[Len(sent')]])
  /\ last_op'.result = "ok"

(***************************************************************************)
(* C11.  connect() reports success only if session.created was received   *)
(* on the transport that connect() call opened: whenever the last          *)
(* connect() has returned True, the transport it opened has been greeted.  *)
(***************************************************************************)
C11_SuccessOnlyAfterGreeting ==
  (conn_pc = "idle" /\ conn_result /\ nconns > 0) => Greeted(nconns)

(***************************************************************************)
(* C12.  add_tool pushes the session configuration only if the client is   *)
(* connected: an add_tool that returns on a client without a transport     *)
(* writes nothing, and one that returns on a client with a transport has   *)
(* written exactly one session.update that lists every registered tool,    *)
(* the new one included; the session.update of a successful connect()      *)
(* lists every tool registered so far.                                     *)
(***************************************************************************)
C12_ToolsPushedWhenConnected ==
  /\ [][AddToolReturns
        => /\ last_op'.name \in DOMAIN tools'
           /\ tools'[last_op'.name] =
                [definition |-> [name |-> last_op'.name,
                                 version |-> last_op'.version],
                 handler |-> last_op'.handler]
           /\ IF is_connected THEN PushesSession
              ELSE sent' = sent /\ emitted' = emitted]_vars
  /\ [][ConnectSucceeds => PushesSession]_vars

\* one tool was registered before connect() and pushed by it, a second one
\* was registered on the connected client and pushed with the first
C12_Witness ==
  /\ last_op.op = "add_tool"
  /\ last_op.result = "ok"
  /\ Cardinality(DOMAIN tools) = 2
  /\ Len(sent) = 2
  /\ sent[1].type = "session.update"
  /\ Cardinality(sent[1].data.tools) = 1
  /\ sent[2].type = "session.update"
  /\ sent[2].data.tools = DefinitionsOf(tools)

(***************************************************************************)
(* C13 as stated.  send_event without a transport fails with the           *)
(* not-connected error, writes nothing and emits nothing; with a transport *)
(* it writes one event with a generated id and the given type and then     *)
(* emits client.<type> once with that event.                               *)
(***************************************************************************)
C13_SendNeedsTransport ==
  [][SendEventEnds
     => IF websocket = 0
        THEN /\ last_op'.result = "RuntimeError: not connected"
             /\ sent' = sent
             /\ emitted' = emitted
        ELSE WritesAndEmits]_vars

(***************************************************************************)
(* C13 amended.  send_event without a transport fails with the             *)
(* not-connected error, writes nothing and emits nothing; with an open     *)
(* transport it writes one event with a generated id and the given type    *)
(* and then emits client.<type> once with that event; with a transport     *)
(* that is closed the write raises the transport's error, and nothing is   *)
(* written or emitted.                                                     *)
(***************************************************************************)
C13_SendNeedsOpenTransport ==
  [][SendEventEnds
     => IF websocket = 0
        THEN /\ last_op'.result = "RuntimeError: not connected"
             /\ sent' = sent
             /\ emitted' = emitted
        ELSE IF websocket \in open
        THEN WritesAndEmits
        ELSE /\ last_op'.result = "ConnectionClosed"
             /\ sent' = sent
             /\ emitted' = emitted]_vars

\* after a send on the open transport and a disconnect, a send has failed
\* with the not-connected error
C13_Witness ==
  /\ last_op.op = "send_event"
  /\ last_op.result = "RuntimeError: not connected"
  /\ disconnects = 1
  /\ websocket = 0
  /\ \E i \in 1..Len(sent) : sent[i].type = "response.create"
  /\ \E i \in 1..Len(emitted) :
       emitted[i].ns = "client" /\ emitted[i].type = "response.create"

(***************************************************************************)
(* C19.  When the remote side closes the transport mid-session, the        *)
(* receive loop ends and the client is left disconnected: once the loop of *)
(* the transport opened by a successful connect() has ended, without       *)
(* disconnect() having been called, is_connected() is false and the        *)
(* session-created flag is cleared.                                        *)
(***************************************************************************)
C19_RemoteCloseDisconnects ==
  \A c \in Conns :
    (loop[c] = "ended" /\ c = nconns /\ conn_pc = "idle" /\ conn_result
       /\ disconnects = 0 /\ disc_pc = "idle")
    => ~is_connected /\ ~session_created

(***************************************************************************)
(* Bad frames, seen from outside.                                          *)
(***************************************************************************)
\* the argument string the well-formed frames call for: the string deltas
\* for id since its registration, in order, or the default "{}" when there
\* are none
ArgumentsCalledFor(frames, id) ==
  LET deltas == DeltasSince(frames, "response.function_call_arguments.delta", id)
      Good(r) == r.frame.delta # NotAString
      good == SelectSeq(deltas, Good)
  IN IF good = << >> THEN <<"{", "}">>
     ELSE Flatten([i \in 1..Len(good) |-> good[i].frame.delta])

\* the step takes a frame that json.loads accepts
TakesEvent ==
  /\ Len(received') = Len(received) + 1
  /\ TakenFrame.frame.type # None

\* what the step has emitted
Added == SubSeq(emitted', Len(emitted) + 1, Len(emitted'))

(***************************************************************************)
(* C17.  The receive loop survives bad frames: it ends only when its       *)
(* transport has closed, and a later well-formed frame is processed as if  *)
(* the bad frames had not been in the stream: when a function call of a    *)
(* registered tool is completed, its arguments are rejected exactly if the *)
(* argument string of the well-formed delta frames (or the default, when   *)
(* there are none) is not a JSON object.                                   *)
(***************************************************************************)
C17_BadFramesLeaveNoTrace ==
  /\ [][\A c \in Conns :
          (loop[c] = "running" /\ loop'[c] = "ended") => c \notin open]_vars
  /\ [][\A c \in Conns :
          (CompletesCall(c) /\ CompletedCall.name \in DOMAIN tools
             /\ tools[CompletedCall.name].handler # None)
          => (call'[c].outcome = "bad_args"
                <=> json_loads(ArgumentsCalledFor(received,
                                                  CompletedCall.id)).kind
                      # "object")]_vars

(***************************************************************************)
(* C18.  Every frame that parses as an event, whatever its type, causes    *)
(* exactly one emission on server.<type> with the event unchanged, after   *)
(* the type-specific emissions of that frame.                              *)
(***************************************************************************)
C18_EveryEventReemitted ==
  [][TakesEvent
     => /\ Len(emitted') > Len(emitted)
        /\ SubSeq(emitted', 1, Len(emitted)) = emitted
        /\ Added[Len(Added)] = [ns |-> "server", type |-> TakenFrame.frame.type,
                                data |-> TakenFrame.frame]
        /\ \A i \in 1..(Len(Added) - 1) : Added[i].ns # "server"]_vars

(***************************************************************************)
(* C20.  While a tool handler started by a completed function-call item is *)
(* still running, the receive loop goes on processing frames that arrive   *)
(* for other items: as long as the transport is open, the loop that awaits *)
(* the handler can take a text delta of another item, apply it and emit    *)
(* its events.                                                             *)
(***************************************************************************)
C20_LoopGoesOnWhileHandlerRuns ==
  \A c \in Conns :
    (loop[c] = "handler" /\ c \in open)
    => ENABLED HandleTextDelta(c, Other, <<"Hi">>)

(***************************************************************************)
(* C21.  If disconnect() runs while a tool handler is in flight, the       *)
(* handler's result is discarded: when the handler awaited by the loop of  *)
(* a transport that disconnect() has closed finishes, nothing is written   *)
(* to any transport, a transport opened by a later connect() included.     *)
(***************************************************************************)
C21_ResultDiscardedAfterDisconnect ==
  [][\A c \in Conns :
       (loop[c] = "handler" /\ loop'[c] # "handler" /\ c \notin open
          /\ disconnects > 0)
       => sent' = sent]_vars

(***************************************************************************)
(* C22.  At every moment a client has at most one open transport and at    *)
(* most one receive loop on an open transport, for any sequence of         *)
(* connect() and disconnect() calls.                                       *)
(***************************************************************************)
C22_SingleConnection ==
  /\ Cardinality(open) <= 1
  /\ Cardinality({c \in open : loop[c] \in {"running", "handler"}}) <= 1

(***************************************************************************)
(* C23.  When a connect attempt made through connect_realtime fails        *)
(* because session.created did not arrive, the socket is closed: after     *)
(* connect_realtime has returned failure the client holds no open          *)
(* transport and is_connected() is false.                                  *)
(***************************************************************************)
C23_FailedConnectClosesSocket ==
  (cr_pc = "idle" /\ ncalls > 0 /\ ~cr_result /\ disconnects = 0
     /\ disc_pc = "idle")
  => ~is_connected /\ open = {}

(***************************************************************************)
(* The history, seen by its caller.                                        *)
(***************************************************************************)
\* get_conversation_history has returned in this step
HistoryReturns == history'.called /\ history' # history /\ history'.refs # << >>

\* the smaller of two numbers
Min(a, b) == IF a < b THEN a ELSE b

(***************************************************************************)
(* C24.  get_conversation_history(limit) on a state with n items returns   *)
(* the last min(limit, n) items in insertion order when limit > 0 and all  *)
(* n items in insertion order when limit <= 0, and leaves the item list    *)
(* and the lookup index unchanged.                                         *)
(***************************************************************************)
C24_HistoryIsTail ==
  [][HistoryReturns
     => LET n == Len(conversation.items)
            m == IF history'.limit > 0 THEN Min(history'.limit, n) ELSE n
        IN /\ Len(history'.list) = m
           /\ \A i \in 1..m : history'.list[i] = conversation.items[n - m + i]
           /\ conversation' = conversation]_vars

\* limit 1 on a state with two items, and the list is the newer item
C24_Witness ==
  /\ history.called
  /\ history.limit = 1
  /\ history.epoch = resets
  /\ Len(conversation.items) = 2
  /\ history.list = <<conversation.items[2]>>
  /\ conversation.items[1].id # conversation.items[2].id

(***************************************************************************)
(* C25.  The result of get_conversation_history is an isolated snapshot:   *)
(* frames processed after the call returned change neither the list that   *)
(* was returned nor the text, transcript, audio or status of the items in  *)
(* it: what the caller reads from the list is what it was when the call    *)
(* returned.                                                               *)
(***************************************************************************)
C25_HistoryIsSnapshot ==
  (history.called /\ history.epoch = resets) => HistoryView = history.list

(***************************************************************************)
(* C26.  An item id occurs at most once in the ordered item list, and the  *)
(* lookup index agrees with the list: its keys are the ids of the listed   *)
(* items and each key maps to the listed item with that id.                *)
(***************************************************************************)
C26_IndexAgreesWithList ==
  LET items == conversation.items
      item_lookup == conversation.item_lookup
  IN /\ \A i, j \in 1..Len(items) : items[i].id = items[j].id => i = j
     /\ DOMAIN item_lookup = {items[i].id : i \in 1..Len(items)}
     /\ \A id \in DOMAIN item_lookup : items[item_lookup[id]].id = id

(***************************************************************************)
(* C27.  An item transitions to completed exactly once: for any frame      *)
(* sequence, one that repeats response.output_item.done for the same item  *)
(* id included, conversation.item.completed is emitted at most once per    *)
(* item and the tool handler of a function-call item is invoked at most    *)
(* once.                                                                   *)
(***************************************************************************)
C27_CompletedOnce ==
  \A id \in ItemIds :
    /\ Cardinality({j \in 1..Len(emitted) :
                      /\ IsCompletedEmission(emitted[j])
                      /\ emitted[j].data.item.id = id}) <= 1
    /\ Cardinality({i \in 1..Len(invoked) : invoked[i].call_id = CallIdOf(id)}) <= 1

(***************************************************************************)
(* Text messages, seen from outside.                                       *)
(***************************************************************************)
IsUserMessage(e) ==
  /\ e.type = "conversation.item.create"
  /\ e.data.item.type = "message"
  /\ e.data.item.role = "user"

\* the step has written exactly the event e
WritesOnly(e) == sent' = Append(sent, e)

(***************************************************************************)
(* C28 as stated.  send_text_message writes a conversation.item.create     *)
(* with a user message and then a response.create, and no other outbound   *)
(* event of the client is written between the two: whatever is written     *)
(* next after a user message is a response.create.                         *)
(***************************************************************************)
C28_TextMessageAtomic ==
  \A i \in 1..(Len(sent) - 1) :
    IsUserMessage(sent[i]) => sent[i + 1].type = "response.create"

(***************************************************************************)
(* C28 amended.  send_text_message(text) on a client whose transport is    *)
(* open writes a conversation.item.create with a user message (role user,  *)
(* type message) of that text; when it goes on with the transport still    *)
(* open it writes a response.create, after the item; events other callers  *)
(* wrote while the call was suspended lie between the two.                 *)
(***************************************************************************)
C28_TextMessageThenResponse ==
  /\ [][(text_call.pc = "idle" /\ text_call'.pc = "sent_item")
        => /\ CanSend
           /\ WritesOnly([conn |-> websocket, event_id |-> Len(sent) + 1,
                          type |-> "conversation.item.create",
                          data |-> [item |-> UserMessage(text_call'.text)]])]_vars
  /\ [][(text_call.pc = "sent_item" /\ text_call'.pc = "idle")
        => IF CanSend
           THEN /\ last_op'.result = "ok"
                /\ WritesOnly([conn |-> websocket, event_id |-> Len(sent) + 1,
                               type |-> "response.create", data |-> << >>])
                /\ \E i \in 1..Len(sent) :
                     /\ IsUserMessage(sent[i])
                     /\ sent[i].data.item.content[1].text = text_call.text
           ELSE sent' = sent /\ last_op'.result = "send failed"]_vars

\* a text message has been sent, and an audio append lies between its item
\* and its response.create
C28_Witness ==
  /\ last_op = [op |-> "send_text_message", result |-> "ok"]
  /\ Len(sent) = 4
  /\ IsUserMessage(sent[2])
  /\ sent[3].type = "input_audio_buffer.append"
  /\ sent[4].type = "response.create"

(***************************************************************************)
(* Audio input, seen from outside.                                         *)
(***************************************************************************)
\* the event send_event writes next for this type and data
NextEvent(type, data) ==
  [conn |-> websocket, event_id |-> Len(sent) + 1, type |-> type, data |-> data]

\* the bytes of the append events written after the last commit, in order
RECURSIVE AppendedSinceCommit(_)
AppendedSinceCommit(log) ==
  IF log = << >> THEN << >>
  ELSE LET e == log[Len(log)]
           before == SubSeq(log, 1, Len(log) - 1)
       IN IF e.type = "input_audio_buffer.commit" THEN << >>
          ELSE IF e.type = "input_audio_buffer.append"
               THEN AppendedSinceCommit(before)
                      \o decode_base64_audio(e.data.audio)
               ELSE AppendedSinceCommit(before)

(***************************************************************************)
(* C29.  send_audio_data with a non-empty chunk on an open transport sends *)
(* one input_audio_buffer.append with that chunk and puts the chunk at the *)
(* end of the local buffer; when the send fails nothing is written and the *)
(* buffer is unchanged.  So, while the client has not disconnected, the    *)
(* buffer is the concatenation, in call order, of the chunks appended      *)
(* since the last commit.                                                  *)
(***************************************************************************)
C29_BufferIsChunksInOrder ==
  /\ [][\A chunk \in StreamedChunks \ {<< >>} :
          SendAudioData(chunk)
          => IF CanSend
             THEN /\ WritesOnly(NextEvent("input_audio_buffer.append",
                                 [audio |-> encode_audio_to_base64(chunk)]))
                  /\ audio_buffer' = audio_buffer \o chunk
             ELSE sent' = sent /\ audio_buffer' = audio_buffer]_vars
  /\ [](disconnects = 0 => audio_buffer = AppendedSinceCommit(sent))

\* two different chunks were sent, the second one failed once in between
C29_Witness ==
  /\ audio_buffer = <<3, 1, 2>>
  /\ Len(sent) = 3
  /\ sent[2].data = [audio |-> encode_audio_to_base64(<<3>>)]
  /\ sent[3].data = [audio |-> encode_audio_to_base64(<<1, 2>>)]
  /\ disconnects = 0

(***************************************************************************)
(* C30.  commit_audio on an open transport with a non-empty buffer sends   *)
(* one input_audio_buffer.commit and then one response.create, keeps the   *)
(* buffered bytes as pending audio and empties the buffer; with an empty   *)
(* buffer it sends only response.create and leaves pending audio as it is. *)
(***************************************************************************)
C30_CommitThenResponse ==
  [][(CommitAudio /\ CanSend)
     => IF audio_buffer # << >>
        THEN /\ sent' = sent \o
                  << NextEvent("input_audio_buffer.commit", << >>),
                     [NextEvent("response.create", << >>)
                        EXCEPT !.event_id = Len(sent) + 2] >>
             /\ conversation'.pending_audio =
                  [present |-> TRUE, data |-> audio_buffer]
             /\ audio_buffer' = << >>
        ELSE /\ WritesOnly(NextEvent("response.create", << >>))
             /\ conversation'.pending_audio = conversation.pending_audio
             /\ audio_buffer' = << >>]_vars

\* a commit of two chunks, and after it a commit with an empty buffer
C30_Witness ==
  /\ last_op = [op |-> "commit_audio", result |-> "ok"]
  /\ conversation.pending_audio = [present |-> TRUE, data |-> <<1, 2, 3>>]
  /\ audio_buffer = << >>
  /\ Len(sent) = 6
  /\ sent[4].type = "input_audio_buffer.commit"
  /\ sent[5].type = "response.create"
  /\ sent[6].type = "response.create"

(***************************************************************************)
(* Bad ids.                                                                *)
(***************************************************************************)
DeltaTypes ==
  {"response.audio.delta", "response.text.delta",
   "response.audio_transcript.delta", "response.function_call_arguments.delta"}

\* the loop of transport c takes a frame and is ready for the next one
TakesAndGoesOn(c) ==
  /\ TakesEvent
  /\ TakenFrame.conn = c
  /\ loop'[c] = "running"

(***************************************************************************)
(* C31.  add_item on an item whose id is missing or empty returns None and *)
(* leaves the item list and the index as they were; update_item_audio,     *)
(* update_item_text and update_item_transcript on an id that is not in the *)
(* index return False and change no item; a delta frame for an unknown id  *)
(* does not stop the receive loop, which takes it and stays running.       *)
(***************************************************************************)
C31_BadIdsHaveNoEffect ==
  /\ [][\A c \in Conns :
          (loop[c] = "running" /\ TakesEvent /\ TakenFrame.conn = c
             /\ TakenFrame.frame.type = "conversation.item.created"
             /\ ~TruthyId(TakenFrame.frame.item.id))
          => /\ add_item_returns(conversation, TakenFrame.frame.item) = NoItem
             /\ conversation' = conversation
             /\ loop'[c] = "running"]_vars
  /\ [][\A c \in Conns :
          (loop[c] = "running" /\ TakesEvent /\ TakenFrame.conn = c
             /\ TakenFrame.frame.type \in DeltaTypes
             /\ ~HasItem(conversation, TakenFrame.frame.item_id))
          => /\ ~update_item_returns(conversation, TakenFrame.frame.item_id)
             /\ conversation' = conversation
             /\ loop'[c] = "running"]_vars

\* frames with an empty id, with no id and a delta for an unknown id have
\* been taken, a good item was created after them, and the loop is running
C31_Witness ==
  /\ \E c \in Conns : loop[c] = "running" /\ c \in open
  /\ \E i, j, k \in 1..Len(received) :
       /\ received[i].frame.type = "conversation.item.created"
       /\ received[i].frame.item.id = ""
       /\ received[j].frame.type = "conversation.item.created"
       /\ received[j].frame.item.id = None
       /\ received[k].frame.type = "response.text.delta"
       /\ received[k].frame.item_id = Other
  /\ received[Len(received)].frame.type = "conversation.item.created"
  /\ Len(conversation.items) = 1
  /\ DOMAIN conversation.item_lookup = {Subject}

(***************************************************************************)
(* C32.  Every session.update sent by update_session carries the whole     *)
(* current configuration with the keyword arguments merged in, a value     *)
(* given now replacing the value the key had (last write wins), and, under *)
(* "tools", exactly the definitions of the tools in the registry at that   *)
(* moment; a call that repeats the keyword arguments of the call before it *)
(* sends the same payload.                                                 *)
(***************************************************************************)
C32_WholeConfigurationPushed ==
  [][\A kwargs \in Patches :
       UpdateSession(kwargs)
       => /\ \A k \in DOMAIN session_config :
               session_config'[k] = IF k \in DOMAIN kwargs THEN kwargs[k]
                                    ELSE session_config[k]
          /\ DOMAIN session_config' = DOMAIN session_config \cup DOMAIN kwargs
          /\ IF CanSend
             THEN /\ Len(sent') = Len(sent) + 1
                  /\ LET e == sent'[Len(sent')] IN
                     /\ e.type = "session.update"
                     /\ DOMAIN e.data = DOMAIN session_config' \cup {"tools"}
                     /\ \A k \in DOMAIN session_config' \ {"tools"} :
                          e.data[k] = session_config'[k]
                     /\ e.data.tools = DefinitionsOf(tools)
                     /\ (/\ last_op.op = "update_session"
                         /\ Len(sent) > 0
                         /\ sent[Len(sent)].type = "session.update"
                         /\ sent[Len(sent)].conn = websocket
                         /\ \A k \in DOMAIN kwargs : session_config[k] = kwargs[k])
                        => e.data = sent[Len(sent)].data
             ELSE sent' = sent]_vars

\* the voice was set twice and the second value is the one sent, with the
\* registered tool, also after a patch that names "tools"; the last call
\* repeated the one before it
C32_Witness ==
  /\ Len(sent) = 4
  /\ \A i \in 1..4 : sent[i].type = "session.update"
  /\ sent[2].data.voice = "echo"
  /\ sent[3].data.voice = "shimmer"
  /\ sent[3].data.temperature = "0.2"
  /\ sent[4].data = sent[3].data
  /\ session_config.tools = <<"mine">>
  /\ Cardinality(sent[4].data.tools) = 1
  /\ last_op = [op |-> "update_session", result |-> "ok"]

(***************************************************************************)
(* C33.  The client is ready only while it holds a transport: in every     *)
(* reachable state the session-created flag implies that the transport is  *)
(* present.  (The flag is set by session.created frames only, and          *)
(* disconnect() clears it together with the transport; the formula is the  *)
(* state invariant of the claim.)                                          *)
(***************************************************************************)
C33_ReadyOnlyWithTransport == session_created => websocket # 0

(***************************************************************************)
(* C34.  Once disconnect() has returned, and until a later connection is   *)
(* opened, no frame changes the conversation state, sets the               *)
(* session-created flag or triggers a tool dispatch: the conversation      *)
(* state stays empty and the flag stays false.                             *)
(***************************************************************************)
C34_QuietAfterDisconnect ==
  [][(websocket = 0 /\ disconnects > 0 /\ disc_pc = "idle")
     => /\ conversation' = reset
        /\ ~session_created'
        /\ invoked' = invoked]_vars

(***************************************************************************)
(* The metrics, seen from outside.                                         *)
(***************************************************************************)
Counters ==
  {"connection_attempts", "successful_connections", "failed_connections",
   "messages_sent", "messages_received", "audio_chunks_processed"}

\* the sum of the window, added up from its end
RECURSIVE RangeTotal(_, _, _)
RangeTotal(xs, lo, hi) ==
  IF lo > hi THEN 0
  ELSE IF lo = hi THEN xs[lo]
  ELSE LET mid == (lo + hi) \div 2
       IN RangeTotal(xs, lo, mid) + RangeTotal(xs, mid + 1, hi)

Total(xs, n) == RangeTotal(xs, 1, n)

(***************************************************************************)
(* C35.  After any sequence of record_response_time calls the window holds *)
(* at most 100 samples, namely the most recent min(n, 100) of the n        *)
(* observations, in the order recorded, and average_response_time is the   *)
(* arithmetic mean of exactly the samples in the window.                   *)
(***************************************************************************)
C35_WindowIsLastHundred ==
  LET window == metrics.response_times
      n == Len(observed)
      m == Min(n, 100)
  IN /\ Len(window) <= 100
     /\ Len(window) = m
     /\ \A i \in 1..m : window[i] = observed[n - m + i]
     /\ n > 0 => /\ metrics.average_response_time.num = Total(window, m)
                 /\ metrics.average_response_time.den = m

\* 101 observations: the first one left the window, the slow one is second
\* and now leads the window
C35_Witness ==
  /\ Len(observed) = 101
  /\ observed[2] = 2
  /\ Len(metrics.response_times) = 100
  /\ metrics.response_times[1] = 2
  /\ metrics.average_response_time = Quotient(101, 100)

(***************************************************************************)
(* C36.  Between two reset_metrics calls no counter decreases;             *)
(* connection_attempts always equals successful_connections plus           *)
(* failed_connections; reset_metrics sets every counter and the running    *)
(* average to zero and empties the response-time window, the list of       *)
(* session durations and the error histogram.                              *)
(***************************************************************************)
C36_CountersMonotone ==
  /\ [][ResetMetrics \/ \A k \in Counters : metrics'[k] >= metrics[k]]_vars
  /\ [](metrics.connection_attempts =
          metrics.successful_connections + metrics.failed_connections)
  /\ [][ResetMetrics
        => /\ \A k \in Counters : metrics'[k] = 0
           /\ metrics'.average_response_time.num = 0
           /\ metrics'.response_times = << >>
           /\ metrics'.session_durations = << >>
           /\ DOMAIN metrics'.error_counts = {}]_vars

\* the metrics after a reset
C36_Witness ==
  /\ last_op.op = "reset_metrics"
  /\ metrics = InitMetrics

(***************************************************************************)
(* C37.  with_retry retries only when the operation raises.  An invocation *)
(* that returns normally, with whatever value (False included), is the     *)
(* last one of the call: with_retry returns that value, and it has waited  *)
(* and recorded an error only for the invocations that raised before it;   *)
(* when the first invocation returns there is one invocation, no wait and  *)
(* no error recorded.                                                      *)
(***************************************************************************)
C37_ReturnedValueEndsRetry ==
  \A i \in 1..Len(invocations) :
    invocations[i].kind = "return"
    => /\ i = Len(invocations)
       /\ retry_pc \in {"returned", "idle"}
       /\ retry_result = invocations[i].value
       /\ Len(sleeps) = i - 1
       /\ \A e \in ErrorTypes : ErrorsAdded(e) = FailuresOf(e, i - 1)

\* the operation returned False at once, with retries left
C37_Witness ==
  /\ retry_pc = "returned"
  /\ max_retries > 0
  /\ invocations = <<[kind |-> "return", value |-> FALSE]>>
  /\ retry_result = FALSE
  /\ sleeps = << >>
  /\ \A e \in ErrorTypes : ErrorsAdded(e) = 0

(***************************************************************************)
(* C38.  When commit_audio and send_audio_data run concurrently, the bytes *)
(* commit_audio keeps as pending audio and removes from the buffer are     *)
(* exactly the bytes that were in the buffer when commit_audio found it    *)
(* non-empty: a chunk added while the commit event is being sent is        *)
(* neither in the pending audio nor cleared from the buffer.               *)
(***************************************************************************)
C38_CommitTakesWhatItFound ==
  [][(commit_call.pc = "sent_commit" /\ commit_call'.pc = "idle")
     => /\ conversation'.pending_audio.data = commit_call.found
        /\ audio_buffer = commit_call.found \o audio_buffer']_vars

(***************************************************************************)
(* Results of function calls, counted.                                     *)
(***************************************************************************)
OutputsFor(call_id) ==
  {i \in 1..Len(sent) : IsFunctionCallOutput(sent[i], call_id)}

CompletionsOf(id) ==
  {j \in 1..Len(emitted) :
     IsCompletedEmission(emitted[j]) /\ emitted[j].data.item.id = id}

C40_FailedPushKeepsTool ==
  /\ [][\A n \in GivenNames, v \in ToolVersions, h \in HandlerKinds :
          (AddTool(n, v, h) /\ TruthyId(n) /\ n \notin DOMAIN tools
             /\ is_connected /\ ~CanSend)
          => /\ last_op'.result = "send failed"
             /\ n \in DOMAIN tools'
             /\ tools'[n] = [definition |-> [name |-> n, version |-> v],
                             handler |-> h]
             /\ sent' = sent]_vars
  /\ [][\A n \in GivenNames, v \in ToolVersions, h \in HandlerKinds :
          (AddTool(n, v, h) /\ last_op.op = "add_tool"
             /\ last_op.result = "send failed" /\ last_op.name = n)
          => /\ last_op'.result = "ValueError: already exists"
             /\ tools' = tools
             /\ sent' = sent]_vars
  /\ [][(Len(sent') = Len(sent) + 1
           /\ sent'[Len(sent')].type = "session.update")
        => sent'[Len(sent')].data.tools = DefinitionsOf(tools')]_vars

\* the push of get_time failed on a closed transport, the repeated
\* add_tool was refused, and the session.update of the next connect() is
\* the first one that carries the tool
C40_Witness ==
  /\ last_op.op = "add_tool"
  /\ last_op.result = "ValueError: already exists"
  /\ Len(sent) = 2
  /\ sent[1].data.tools = {}
  /\ sent[1].conn = 1
  /\ sent[2].type = "session.update"
  /\ sent[2].conn = 2
  /\ sent[2].data.tools = DefinitionsOf(tools)
  /\ 1 \notin open
  /\ "get_time" \in DOMAIN tools

====
